---- MODULE Spec2Model ----
(***************************************************************************)
(* Task Manager backend (Jorge012345/crehana): the authentication service, *)
(* the task-list service and the task service, over the user, task-list    *)
(* and task stores, as a state machine.  One action per service operation. *)
(*                                                                         *)
(* Every service method is an operator from the tables it reads and its    *)
(* arguments to its outcome: err (NoError when the call returns), val (the *)
(* returned value) and the tables as the call leaves them.  The state is   *)
(* what outlives a request: the three tables, the clock and the tokens     *)
(* clients hold.  A request that fails, and a request that only reads,     *)
(* leaves the state as it is.                                              *)
(***************************************************************************)
EXTENDS Integers, Sequences, FiniteSets, TLC

VARIABLES
    users,          \* the users table: sequence of user rows, id = index
    task_lists,     \* the task_lists table: id -> row, for the ids present
    tasks,          \* the tasks table: id -> row, for the ids present
    next_list_id,   \* next primary key of task_lists
    next_task_id,   \* next primary key of tasks
    now,            \* datetime.utcnow(), in minutes
    issued          \* access tokens handed out by login and held by clients

vars == <<users, task_lists, tasks, next_list_id, next_task_id, now, issued>>

(***************************************************************************)
(* Bounds of the exploration.                                              *)
(***************************************************************************)
MaxUsers == 2
MaxLists == 1
MaxTasks == 1
MaxTokens == 1
MaxLongList == 101
\* Task lists and tasks ever created where several lists exist side by side
MaxSiblingLists == 2
MaxSiblingTasks == 2
MaxTime == 45
TickMinutes == 15

(***************************************************************************)
(* Optional values: None is the empty set, a present value v is {v}.       *)
(***************************************************************************)
None == {}
Some(v) == {v}
The(o) == CHOOSE v \in o : TRUE

\* Python truthiness of an Optional[int]: None and 0 are falsy.
Truthy(o) == o # None /\ o # Some(0)

(***************************************************************************)
(* Domain exceptions (src/domain/exceptions.py).  kind is the base class   *)
(* the exception handler dispatches on; ref and detail are the values      *)
(* formatted into the message.                                             *)
(***************************************************************************)
NoError ==
    [type |-> "", kind |-> "", code |-> "", message |-> "", ref |-> 0, detail |-> ""]


EntityNotFoundError(type, entity_type, entity_id) ==
    [type |-> type, kind |-> "EntityNotFoundError", code |-> "ENTITY_NOT_FOUND",
     message |-> "{entity_type} with id {entity_id} not found",
     ref |-> entity_id, detail |-> entity_type]

AuthenticationError(message) ==
    [type |-> "AuthenticationError", kind |-> "AuthenticationError",
     code |-> "AUTHENTICATION_ERROR", message |-> message, ref |-> 0, detail |-> ""]

AuthorizationError(message) ==
    [type |-> "AuthorizationError", kind |-> "AuthorizationError",
     code |-> "AUTHORIZATION_ERROR", message |-> message, ref |-> 0, detail |-> ""]

\* f"{entity_type} with {field} '{value}' already exists"
DuplicateEntityError(entity_type, field, value) ==
    [type |-> "DuplicateEntityError", kind |-> "DuplicateEntityError",
     code |-> "DUPLICATE_ENTITY",
     message |-> entity_type \o " with " \o field \o " '" \o value \o "' already exists",
     ref |-> 0, detail |-> value]

BusinessRuleViolationError(type, message) ==
    [type |-> type, kind |-> "BusinessRuleViolationError",
     code |-> "BUSINESS_RULE_VIOLATION", message |-> message, ref |-> 0, detail |-> ""]

TaskListNotFoundError(task_list_id) ==
    EntityNotFoundError("TaskListNotFoundError", "TaskList", task_list_id)

TaskNotFoundError(task_id) ==
    EntityNotFoundError("TaskNotFoundError", "Task", task_id)

UserNotFoundError(user_id) ==
    EntityNotFoundError("UserNotFoundError", "User", user_id)

EmailAlreadyExistsError(email) ==
    [DuplicateEntityError("User", "email", email) EXCEPT !.type = "EmailAlreadyExistsError"]

UsernameAlreadyExistsError(username) ==
    [DuplicateEntityError("User", "username", username)
        EXCEPT !.type = "UsernameAlreadyExistsError"]

TaskAssignmentError(message) ==
    BusinessRuleViolationError("TaskAssignmentError", "Task assignment error: " \o message)

TaskStatusTransitionError(current_status, new_status) ==
    BusinessRuleViolationError("TaskStatusTransitionError",
        <<"Invalid status transition from ", current_status, " to ", new_status>>)

\* An exception that is no TaskManagerException: it reaches no handler of the
\* application and the request ends in a server error.
UnhandledError(type, message) ==
    [type |-> type, kind |-> "Unhandled", code |-> "", message |-> message,
     ref |-> 0, detail |-> ""]

TaskManagerException(message, error_code) ==
    [type |-> "TaskManagerException", kind |-> "TaskManagerException",
     code |-> error_code, message |-> message, ref |-> 0, detail |-> ""]

ValidationError(message) ==
    [type |-> "ValidationError", kind |-> "ValidationError",
     code |-> "VALIDATION_ERROR", message |-> message, ref |-> 0, detail |-> ""]

InvalidOperationError(message) ==
    [type |-> "InvalidOperationError", kind |-> "InvalidOperationError",
     code |-> "INVALID_OPERATION", message |-> message, ref |-> 0, detail |-> ""]

\* The handler without its branch for business-rule violations
task_manager_exception_handler_no_conflict(exc) ==
    [status_code |-> IF exc.kind = "EntityNotFoundError" THEN 404
                     ELSE IF exc.kind = "AuthenticationError" THEN 401
                     ELSE IF exc.kind = "AuthorizationError" THEN 403
                     ELSE IF exc.kind = "ValidationError" THEN 422
                     ELSE 400,
     message |-> exc.message,
     error_code |-> exc.code]

\* task_manager_exception_handler: the response to a domain error
task_manager_exception_handler(exc) ==
    [status_code |-> IF exc.kind = "EntityNotFoundError" THEN 404
                     ELSE IF exc.kind = "AuthenticationError" THEN 401
                     ELSE IF exc.kind = "AuthorizationError" THEN 403
                     ELSE IF exc.kind = "ValidationError" THEN 422
                     ELSE IF exc.kind = "BusinessRuleViolationError" THEN 409
                     ELSE 400,
     message |-> exc.message,
     error_code |-> exc.code]

(***************************************************************************)
(* The users table and its repository.                                     *)
(***************************************************************************)
UserIds == 1..Len(users)

UserRows(us) == {[us[i] EXCEPT !.id = i] : i \in 1..Len(us)}

\* UserRepository.get_by_id / get_by_email / get_by_username: Optional[User]
user_get_by_id(us, user_id) ==
    IF user_id \in 1..Len(us) THEN Some(us[user_id]) ELSE None

user_get_by_email(us, email) ==
    {us[i] : i \in {j \in 1..Len(us) : us[j].email = email}}

user_get_by_username(us, username) ==
    {us[i] : i \in {j \in 1..Len(us) : us[j].username = username}}

\* UserRepository.create: the row gets the next id; email and username are
\* unique columns, so a duplicate of either is rejected by the database.
user_create(us, user) ==
    IF \E i \in 1..Len(us) : us[i].email = user.email \/ us[i].username = user.username
    THEN [err |-> UnhandledError("IntegrityError", "unique constraint"), users |-> us]
    ELSE [err |-> NoError, users |-> Append(us, [user EXCEPT !.id = Len(us) + 1])]

\* UserRepository.update, restricted to the is_active column
user_update_is_active(us, user_id, is_active) ==
    [us EXCEPT ![user_id].is_active = is_active]

(***************************************************************************)
(* Credential codec: passlib CryptContext(schemes=["bcrypt"]).  A hash     *)
(* carries its salt; verification recomputes the digest under that salt.   *)
(***************************************************************************)
\* bcrypt reads the first 72 bytes of the password and no more.
Bcrypt(password, salt) ==
    <<"$2b$", salt, IF Len(password) > 72 THEN SubSeq(password, 1, 72) ELSE password>>

_hash_password(password, salt) ==
    [salt |-> salt, digest |-> Bcrypt(password, salt)]

_verify_password(plain_password, hashed_password) ==
    Bcrypt(plain_password, hashed_password.salt) = hashed_password.digest

(***************************************************************************)
(* Token service: jose jwt.encode / jwt.decode with HS256.                 *)
(***************************************************************************)
access_token_expire_minutes == 30

secret_key == "your-super-secret-key-change-this-in-production"

RECURSIVE DecimalDigits(_)
DecimalDigits(n) ==
    IF n < 10 THEN <<n>> ELSE Append(DecimalDigits(n \div 10), n % 10)

\* str(user.id)
str(n) == DecimalDigits(n)

RECURSIVE ParseDigits(_, _)
ParseDigits(s, acc) ==
    IF s = <<>> THEN acc ELSE ParseDigits(Tail(s), acc * 10 + Head(s))

\* int(user_id): the number a string of decimal digits denotes; the empty
\* string is no number and int raises ValueError.
int(s) == IF s = <<>> THEN [raises |-> "ValueError"] ELSE ParseDigits(s, 0)

\* The ValueError of int(user_id), raised outside the try block of
\* get_current_user.
InvalidLiteral == UnhandledError("ValueError", "invalid literal for int() with base 10: ''")

\* The HMAC over the claims under a key.
Sign(sub, exp, key) == [key |-> key, sub |-> sub, exp |-> exp]

\* jwt.encode(to_encode, key): a well-formed token carrying its claims and
\* the signature over them.
jwt_encode(sub, exp, key) ==
    [wellformed |-> TRUE, sub |-> sub, exp |-> exp, sig |-> Sign(sub, exp, key)]

_create_access_token(sub, t) ==
    jwt_encode(sub, t + access_token_expire_minutes, secret_key)

\* jwt.decode called with the expiry check switched off
jwt_decode_fails_no_exp(token, t) ==
    \/ ~token.wellformed
    \/ token.sig # Sign(token.sub, token.exp, secret_key)

\* jwt.decode raises JWTError for a malformed token, for a signature that
\* does not match the claims under the service's key, and for an exp claim
\* that lies in the past (exp < now).
jwt_decode_fails(token, t) ==
    \/ ~token.wellformed
    \/ token.sig # Sign(token.sub, token.exp, secret_key)
    \/ token.exp < t

(***************************************************************************)
(* AuthService (src/application/auth_service.py)                           *)
(***************************************************************************)
UserResponseDTO(user) ==
    [id |-> user.id, email |-> user.email, username |-> user.username,
     full_name |-> user.full_name, is_active |-> user.is_active]

\* register_user without its username check
register_user_email_only(us, user_data, salt) ==
    IF user_get_by_email(us, user_data.email) # None
    THEN [err |-> EmailAlreadyExistsError(user_data.email), val |-> None, users |-> us]
    ELSE LET user == [id |-> 0,
                      email |-> user_data.email,
                      username |-> user_data.username,
                      full_name |-> user_data.full_name,
                      hashed_password |-> _hash_password(user_data.password, salt),
                      is_active |-> TRUE]
             created == user_create(us, user)
         IN  IF created.err # NoError
             THEN [err |-> created.err, val |-> None, users |-> created.users]
             ELSE [err |-> NoError,
                   val |-> Some(UserResponseDTO(created.users[Len(created.users)])),
                   users |-> created.users]

\* register_user looking the username up before the email
register_user_username_first(us, user_data, salt) ==
    IF user_get_by_username(us, user_data.username) # None
    THEN [err |-> UsernameAlreadyExistsError(user_data.username), val |-> None, users |-> us]
    ELSE IF user_get_by_email(us, user_data.email) # None
    THEN [err |-> EmailAlreadyExistsError(user_data.email), val |-> None, users |-> us]
    ELSE LET user == [id |-> 0,
                      email |-> user_data.email,
                      username |-> user_data.username,
                      full_name |-> user_data.full_name,
                      hashed_password |-> _hash_password(user_data.password, salt),
                      is_active |-> TRUE]
             created == user_create(us, user)
         IN  IF created.err # NoError
             THEN [err |-> created.err, val |-> None, users |-> created.users]
             ELSE [err |-> NoError,
                   val |-> Some(UserResponseDTO(created.users[Len(created.users)])),
                   users |-> created.users]

register_user(us, user_data, salt) ==
    IF user_get_by_email(us, user_data.email) # None
    THEN [err |-> EmailAlreadyExistsError(user_data.email), val |-> None, users |-> us]
    ELSE IF user_get_by_username(us, user_data.username) # None
    THEN [err |-> UsernameAlreadyExistsError(user_data.username), val |-> None, users |-> us]
    ELSE LET user == [id |-> 0,
                      email |-> user_data.email,
                      username |-> user_data.username,
                      full_name |-> user_data.full_name,
                      hashed_password |-> _hash_password(user_data.password, salt),
                      is_active |-> TRUE]
             created == user_create(us, user)
         IN  IF created.err # NoError
             THEN [err |-> created.err, val |-> None, users |-> created.users]
             ELSE [err |-> NoError,
                   val |-> Some(UserResponseDTO(created.users[Len(created.users)])),
                   users |-> created.users]

\* register_user of a request that was suspended at its awaits: the email
\* check reads the table as it was then (seen_email), the username check the
\* table as it was when it ran (seen_username), and the insert meets the table
\* as it is by then (us).
register_user_suspended(seen_email, seen_username, us, user_data, salt) ==
    IF user_get_by_email(seen_email, user_data.email) # None
    THEN [err |-> EmailAlreadyExistsError(user_data.email), val |-> None, users |-> us]
    ELSE IF user_get_by_username(seen_username, user_data.username) # None
    THEN [err |-> UsernameAlreadyExistsError(user_data.username), val |-> None, users |-> us]
    ELSE LET user == [id |-> 0,
                      email |-> user_data.email,
                      username |-> user_data.username,
                      full_name |-> user_data.full_name,
                      hashed_password |-> _hash_password(user_data.password, salt),
                      is_active |-> TRUE]
             created == user_create(us, user)
         IN  IF created.err # NoError
             THEN [err |-> created.err, val |-> None, users |-> created.users]
             ELSE [err |-> NoError,
                   val |-> Some(UserResponseDTO(created.users[Len(created.users)])),
                   users |-> created.users]

\* The lookup trying the username before the email
login_lookup_username_first(us, identifier) ==
    IF user_get_by_username(us, identifier) # None
    THEN user_get_by_username(us, identifier)
    ELSE user_get_by_email(us, identifier)

\* The user authenticate_user resolves: by email first, then by username.
login_lookup(us, identifier) ==
    IF user_get_by_email(us, identifier) # None
    THEN user_get_by_email(us, identifier)
    ELSE user_get_by_username(us, identifier)

authenticate_user(us, login_data, t) ==
    LET user == login_lookup(us, login_data.email) IN
    IF user = None \/ ~_verify_password(login_data.password, The(user).hashed_password)
    THEN [err |-> AuthenticationError("Invalid credentials"), val |-> None]
    ELSE IF ~The(user).is_active
    THEN [err |-> AuthenticationError("User account is inactive"), val |-> None]
    ELSE [err |-> NoError,
          val |-> Some([access_token |-> _create_access_token(Some(str(The(user).id)), t),
                        token_type |-> "bearer",
                        expires_in |-> access_token_expire_minutes * 60])]

\* get_current_user refusing a deactivated user, as login does
get_current_user_active_only(us, token, t) ==
    IF jwt_decode_fails(token, t)
    THEN [err |-> AuthenticationError("Invalid token"), val |-> None]
    ELSE IF token.sub = None
    THEN [err |-> AuthenticationError("Invalid token"), val |-> None]
    ELSE IF The(token.sub) = <<>>
    THEN [err |-> InvalidLiteral, val |-> None]
    ELSE LET user == user_get_by_id(us, int(The(token.sub))) IN
         IF user = None
         THEN [err |-> AuthenticationError("User not found"), val |-> None]
         ELSE IF ~The(user).is_active
         THEN [err |-> AuthenticationError("User account is inactive"), val |-> None]
         ELSE [err |-> NoError, val |-> user]

get_current_user(us, token, t) ==
    IF jwt_decode_fails(token, t)
    THEN [err |-> AuthenticationError("Invalid token"), val |-> None]
    ELSE IF token.sub = None
    THEN [err |-> AuthenticationError("Invalid token"), val |-> None]
    ELSE IF The(token.sub) = <<>>
    THEN [err |-> InvalidLiteral, val |-> None]
    ELSE LET user == user_get_by_id(us, int(The(token.sub))) IN
         IF user = None
         THEN [err |-> AuthenticationError("User not found"), val |-> None]
         ELSE [err |-> NoError, val |-> user]

(***************************************************************************)
(* The task_lists and tasks tables and their repositories.                 *)
(***************************************************************************)
TaskStatus == {"pending", "in_progress", "completed", "cancelled"}
TaskPriority == {"low", "medium", "high", "critical"}

\* A table without the row of one id.
Without(table, id) == [i \in DOMAIN table \ {id} |-> table[i]]

\* The ids of a set in ascending order.
RECURSIVE Ascending(_)
Ascending(S) ==
    IF S = {} THEN <<>>
    ELSE LET m == CHOOSE x \in S : \A y \in S : x <= y
         IN  <<m>> \o Ascending(S \ {m})

\* TaskListRepository.get_by_id
list_get_by_id(lists, task_list_id) ==
    IF task_list_id \in DOMAIN lists THEN Some(lists[task_list_id]) ELSE None

\* TaskListRepository.create: the row gets the next id.
list_create(lists, next_id, task_list) ==
    lists @@ (next_id :> [task_list EXCEPT !.id = next_id])

\* TaskListRepository.update
list_update(lists, task_list) ==
    [lists EXCEPT ![task_list.id] = task_list]

\* TaskListRepository.delete: true iff a row was removed.
list_delete_result(lists, task_list_id) == task_list_id \in DOMAIN lists

list_delete(lists, task_list_id) == Without(lists, task_list_id)

\* The tasks relationship without the delete cascade
tasks_cascade_delete_none(ts, task_list_id) == ts

\* The tasks relationship of TaskListModel cascades the delete of a list to
\* its tasks.
tasks_cascade_delete(ts, task_list_id) ==
    [i \in {j \in DOMAIN ts : ts[j].task_list_id # task_list_id} |-> ts[i]]

\* TaskRepository.get_by_id
task_get_by_id(ts, task_id) ==
    IF task_id \in DOMAIN ts THEN Some(ts[task_id]) ELSE None

\* The rows of a sequence from position skip + 1 on, at most limit of them.
Page(rows, skip, limit) ==
    SubSeq(rows, skip + 1, IF skip + limit < Len(rows) THEN skip + limit ELSE Len(rows))

default_limit == 100

\* TaskRepository.get_by_task_list(task_list_id, skip, limit, status, priority)
task_get_by_task_list(ts, task_list_id, skip, limit, status, priority) ==
    LET ids == {i \in DOMAIN ts :
                    /\ ts[i].task_list_id = task_list_id
                    /\ (status # None => ts[i].status = The(status))
                    /\ (priority # None => ts[i].priority = The(priority))}
        ordered == Ascending(ids)
    IN  Page([k \in 1..Len(ordered) |-> ts[ordered[k]]], skip, limit)

\* The foreign key tasks.assigned_to -> users.id
assignee_fk_holds(us, task) ==
    task.assigned_to = None \/ The(task.assigned_to) \in 1..Len(us)

\* The foreign key tasks.task_list_id -> task_lists.id
task_list_fk_holds(lists, task) == task.task_list_id \in DOMAIN lists

\* TaskRepository.create: the row gets the next id.
task_create(ts, next_id, task) ==
    ts @@ (next_id :> [task EXCEPT !.id = next_id])

\* TaskRepository.update
task_update(ts, task) == [ts EXCEPT ![task.id] = task]

\* TaskRepository.update_status; updated_at is refreshed by the column's
\* onupdate.
task_update_status(ts, task_id, status, t) ==
    [ts EXCEPT ![task_id].status = status, ![task_id].updated_at = Some(t)]

\* TaskRepository.delete: true iff a row was removed.
task_delete_result(ts, task_id) == task_id \in DOMAIN ts

task_delete(ts, task_id) == Without(ts, task_id)

(***************************************************************************)
(* Domain entities (src/domain/entities.py)                                *)
(***************************************************************************)
\* is_overdue sparing cancelled tasks as well
is_overdue_unless_closed(task, t) ==
    IF task.due_date = None THEN FALSE
    ELSE t > The(task.due_date) /\ task.status \notin {"completed", "cancelled"}

\* Task.is_overdue
is_overdue(task, t) ==
    IF task.due_date = None THEN FALSE
    ELSE t > The(task.due_date) /\ task.status # "completed"

\* (completed_tasks / len(tasks)) * 100.0, kept as the exact ratio num / den
Percentage(completed_tasks, total) == [num |-> completed_tasks * 100, den |-> total]

Zero == [num |-> 0, den |-> 1]

CompletedCount(task_seq) ==
    Cardinality({k \in 1..Len(task_seq) : task_seq[k].status = "completed"})

\* TaskList.calculate_completion_percentage, over the entity's tasks
calculate_completion_percentage(task_seq) ==
    IF task_seq = <<>> THEN Zero
    ELSE Percentage(CompletedCount(task_seq), Len(task_seq))

(***************************************************************************)
(* TaskListService (src/application/services.py)                           *)
(***************************************************************************)
TaskResponseDTO(task, t) ==
    [id |-> task.id, title |-> task.title, description |-> task.description,
     status |-> task.status, priority |-> task.priority,
     task_list_id |-> task.task_list_id, assigned_to |-> task.assigned_to,
     created_at |-> task.created_at, updated_at |-> task.updated_at,
     due_date |-> task.due_date, is_overdue |-> is_overdue(task, t)]

\* task_count is 0 unless the caller passes it.
TaskListResponseDTO(task_list, completion_percentage, task_count) ==
    [id |-> task_list.id, name |-> task_list.name,
     description |-> task_list.description, owner_id |-> task_list.owner_id,
     created_at |-> task_list.created_at, updated_at |-> task_list.updated_at,
     completion_percentage |-> completion_percentage, task_count |-> task_count]

TaskListWithTasksDTO(task_list, completion_percentage, task_responses) ==
    [id |-> task_list.id, name |-> task_list.name,
     description |-> task_list.description, owner_id |-> task_list.owner_id,
     created_at |-> task_list.created_at, updated_at |-> task_list.updated_at,
     completion_percentage |-> completion_percentage, tasks |-> task_responses]

\* The check without its owner test
task_list_access_any_user(lists, task_list_id, user_id) ==
    LET task_list == list_get_by_id(lists, task_list_id) IN
    IF task_list = None
    THEN TaskListNotFoundError(task_list_id)
    ELSE NoError

\* The check every task-list operation starts with: the list must exist and
\* the requester must be its owner.
task_list_access(lists, task_list_id, user_id) ==
    LET task_list == list_get_by_id(lists, task_list_id) IN
    IF task_list = None
    THEN TaskListNotFoundError(task_list_id)
    ELSE IF The(task_list).owner_id # user_id
    THEN AuthorizationError("You don't have access to this task list")
    ELSE NoError

create_task_list(lists, next_id, task_list_data, owner_id, t) ==
    LET task_list == [id |-> 0,
                      name |-> task_list_data.name,
                      description |-> task_list_data.description,
                      owner_id |-> owner_id,
                      created_at |-> Some(t),
                      updated_at |-> None]
        created == list_create(lists, next_id, task_list)
    IN  [err |-> NoError,
         val |-> Some(TaskListResponseDTO(created[next_id], Zero, 0)),
         lists |-> created]

get_task_list(lists, ts, task_list_id, user_id, t) ==
    LET denied == task_list_access(lists, task_list_id, user_id) IN
    IF denied # NoError
    THEN [err |-> denied, val |-> None]
    ELSE LET task_seq == task_get_by_task_list(ts, task_list_id, 0, default_limit, None, None)
             task_responses == [k \in 1..Len(task_seq) |-> TaskResponseDTO(task_seq[k], t)]
             completion_percentage ==
                 IF task_seq # <<>>
                 THEN Percentage(CompletedCount(task_seq), Len(task_seq))
                 ELSE Zero
         IN  [err |-> NoError,
              val |-> Some(TaskListWithTasksDTO(lists[task_list_id],
                                                completion_percentage, task_responses))]

\* tasks_loaded: whether the entity the repository's update returns carries the
\* list's tasks (the relationship loaded) or none.
update_task_list(lists, ts, task_list_id, update_data, user_id, t, tasks_loaded) ==
    LET denied == task_list_access(lists, task_list_id, user_id) IN
    IF denied # NoError
    THEN [err |-> denied, val |-> None, lists |-> lists]
    ELSE LET task_list == lists[task_list_id]
             named == IF update_data.name # None
                      THEN [task_list EXCEPT !.name = The(update_data.name)]
                      ELSE task_list
             described == IF update_data.description # None
                          THEN [named EXCEPT !.description = update_data.description]
                          ELSE named
             stamped == [described EXCEPT !.updated_at = Some(t)]
             entity_tasks ==
                 IF tasks_loaded
                 THEN task_get_by_task_list(ts, task_list_id, 0, Cardinality(DOMAIN ts), None, None)
                 ELSE <<>>
         IN  [err |-> NoError,
              val |-> Some(TaskListResponseDTO(stamped,
                               calculate_completion_percentage(entity_tasks), 0)),
              lists |-> list_update(lists, stamped)]

\* update_task_list of a request that was suspended between its read of the
\* list and its write: the list is read from the task lists as they were
\* (seen) and the whole entity is written to the task lists as they are by
\* then (lists).
update_task_list_suspended(seen, lists, ts, task_list_id, update_data, user_id, t, loaded) ==
    LET denied == task_list_access(seen, task_list_id, user_id) IN
    IF denied # NoError
    THEN [err |-> denied, val |-> None, lists |-> lists]
    ELSE LET task_list == seen[task_list_id]
             named == IF update_data.name # None
                      THEN [task_list EXCEPT !.name = The(update_data.name)]
                      ELSE task_list
             described == IF update_data.description # None
                          THEN [named EXCEPT !.description = update_data.description]
                          ELSE named
             stamped == [described EXCEPT !.updated_at = Some(t)]
             entity_tasks ==
                 IF loaded
                 THEN task_get_by_task_list(ts, task_list_id, 0, Cardinality(DOMAIN ts), None, None)
                 ELSE <<>>
         IN  [err |-> NoError,
              val |-> Some(TaskListResponseDTO(stamped,
                               calculate_completion_percentage(entity_tasks), 0)),
              lists |-> list_update(lists, stamped)]

delete_task_list(lists, ts, task_list_id, user_id) ==
    LET denied == task_list_access(lists, task_list_id, user_id) IN
    IF denied # NoError
    THEN [err |-> denied, val |-> None, lists |-> lists, tasks |-> ts]
    ELSE [err |-> NoError,
          val |-> Some(list_delete_result(lists, task_list_id)),
          lists |-> list_delete(lists, task_list_id),
          tasks |-> tasks_cascade_delete(ts, task_list_id)]

\* delete_task_list returning true whatever the repository's delete reports
delete_task_list_suspended_always_true(seen, lists, ts, task_list_id, user_id) ==
    LET denied == task_list_access(seen, task_list_id, user_id) IN
    IF denied # NoError
    THEN [err |-> denied, val |-> None, lists |-> lists, tasks |-> ts]
    ELSE [err |-> NoError,
          val |-> Some(TRUE),
          lists |-> list_delete(lists, task_list_id),
          tasks |-> tasks_cascade_delete(ts, task_list_id)]

\* delete_task_list of a request that was suspended between its checks and
\* its delete: the checks read the lists as they were (seen), the delete
\* meets the tables as they are by then.
delete_task_list_suspended(seen, lists, ts, task_list_id, user_id) ==
    LET denied == task_list_access(seen, task_list_id, user_id) IN
    IF denied # NoError
    THEN [err |-> denied, val |-> None, lists |-> lists, tasks |-> ts]
    ELSE [err |-> NoError,
          val |-> Some(list_delete_result(lists, task_list_id)),
          lists |-> list_delete(lists, task_list_id),
          tasks |-> tasks_cascade_delete(ts, task_list_id)]

\* DELETE /api/v1/task-lists/{id}: the status of the response. An exception
\* that is no TaskManagerException matches no registered handler: 500.
delete_task_list_endpoint(r) ==
    IF r.err # NoError
    THEN IF r.err.kind = "Unhandled" THEN 500
         ELSE task_manager_exception_handler(r.err).status_code
    ELSE IF ~The(r.val) THEN 404
    ELSE 200

\* TaskListRepository.get_by_owner(owner_id, skip, limit)
list_get_by_owner(lists, owner_id, skip, limit) ==
    LET ordered == Ascending({i \in DOMAIN lists : lists[i].owner_id = owner_id})
    IN  Page([k \in 1..Len(ordered) |-> lists[ordered[k]]], skip, limit)

list_user_task_lists(lists, ts, user_id, pagination) ==
    LET owned == list_get_by_owner(lists, user_id, pagination.skip, pagination.limit)
        Row(task_list) ==
            LET task_seq == task_get_by_task_list(ts, task_list.id, 0, default_limit,
                                                  None, None)
                completion_percentage ==
                    IF task_seq # <<>>
                    THEN Percentage(CompletedCount(task_seq), Len(task_seq))
                    ELSE Zero
            IN  TaskListResponseDTO(task_list, completion_percentage, Len(task_seq))
    IN  [err |-> NoError, val |-> Some([k \in 1..Len(owned) |-> Row(owned[k])])]

(***************************************************************************)
(* NotificationService and TaskService (src/application/services.py)       *)
(*                                                                         *)
(* env is what the deployment decides for one request:                     *)
(*   email_enabled  NotificationService(email_enabled=...)                 *)
(*   notifier_returns  whether the notification service the task service *)
(*                  was constructed with returns from its                  *)
(*                  send_email_notification, as NotificationService does,  *)
(*                  or raises, as the service substituted in               *)
(*                  tests/integration/test_notification_integration.py does *)
(*   fk_enforced    whether the database checks tasks.assigned_to against  *)
(*                  users.id when a row is written                         *)
(*   committed      whether a write made before an unhandled exception     *)
(*                  survives it, or is rolled back with the session        *)
(***************************************************************************)
\* NotificationService.send_email_notification: "false" when notifications
\* are disabled, "true" otherwise; it only logs and never raises.
send_email_notification(notification, env) ==
    IF ~env.email_enabled THEN "false" ELSE "true"

EmailNotificationDTO(task, assignee) ==
    [to_email |-> assignee.email, subject |-> <<"Task Assigned: ", task.title>>,
     task_id |-> task.id, user_id |-> assignee.id]

\* TaskService._send_assignment_notification: the e-mails sent, and whether
\* the call raised.  It awaits self.notification_service's method unguarded,
\* so what that service raises leaves this method.
_send_assignment_notification(us, task, env) ==
    IF ~Truthy(task.assigned_to)
    THEN [raised |-> FALSE, notes |-> <<>>]
    ELSE LET assignee == user_get_by_id(us, The(task.assigned_to)) IN
         IF assignee = None
         THEN [raised |-> FALSE, notes |-> <<>>]
         ELSE LET notification == EmailNotificationDTO(task, The(assignee))
                  sent == IF env.notifier_returns
                          THEN send_email_notification(notification, env)
                          ELSE "raises"
              IN  [raised |-> sent = "raises",
                   notes |-> IF sent = "true" THEN <<notification>> ELSE <<>>]

\* "Verify assignee exists if provided", of create_task and update_task
verify_assignee(us, assigned_to) ==
    IF Truthy(assigned_to)
    THEN LET assignee == user_get_by_id(us, The(assigned_to)) IN
         IF assignee = None
         THEN UserNotFoundError(The(assigned_to))
         ELSE IF ~The(assignee).is_active
         THEN TaskAssignmentError("Cannot assign task to inactive user")
         ELSE NoError
    ELSE NoError

\* The outcome of a request whose notification raised after its write.
notification_failure(ts_before, ts_after, env) ==
    [err |-> UnhandledError("Exception", "Email service unavailable"),
     val |-> None,
     tasks |-> IF env.committed THEN ts_after ELSE ts_before,
     notes |-> <<>>]

\* The outcome of a write the database rejects.
integrity_failure(ts_before) ==
    [err |-> UnhandledError("IntegrityError", "foreign key constraint"),
     val |-> None, tasks |-> ts_before, notes |-> <<>>]

\* create_task validating the assignee before it looks at the list
create_task_assignee_first(us, lists, ts, next_id, task_list_id, task_data, user_id, t, env) ==
    LET denied == task_list_access(lists, task_list_id, user_id)
        invalid == verify_assignee(us, task_data.assigned_to)
        task == [id |-> 0,
                 title |-> task_data.title,
                 description |-> task_data.description,
                 status |-> "pending",
                 priority |-> task_data.priority,
                 task_list_id |-> task_list_id,
                 assigned_to |-> task_data.assigned_to,
                 created_at |-> Some(t),
                 updated_at |-> None,
                 due_date |-> task_data.due_date]
        stored == task_create(ts, next_id, task)
    IN
    IF invalid # NoError
    THEN [err |-> invalid, val |-> None, tasks |-> ts, notes |-> <<>>]
    ELSE IF denied # NoError
    THEN [err |-> denied, val |-> None, tasks |-> ts, notes |-> <<>>]
    ELSE IF env.fk_enforced /\ ~assignee_fk_holds(us, task)
    THEN integrity_failure(ts)
    ELSE LET created_task == stored[next_id]
             sent == IF Truthy(created_task.assigned_to)
                     THEN _send_assignment_notification(us, created_task, env)
                     ELSE [raised |-> FALSE, notes |-> <<>>]
         IN  IF sent.raised
             THEN notification_failure(ts, stored, env)
             ELSE [err |-> NoError,
                   val |-> Some(TaskResponseDTO(created_task, t)),
                   tasks |-> stored,
                   notes |-> sent.notes]

\* create_task storing the task before it verifies the assignee
create_task_stores_first(us, lists, ts, next_id, task_list_id, task_data, user_id, t, env) ==
    LET denied == task_list_access(lists, task_list_id, user_id)
        invalid == verify_assignee(us, task_data.assigned_to)
        task == [id |-> 0,
                 title |-> task_data.title,
                 description |-> task_data.description,
                 status |-> "pending",
                 priority |-> task_data.priority,
                 task_list_id |-> task_list_id,
                 assigned_to |-> task_data.assigned_to,
                 created_at |-> Some(t),
                 updated_at |-> None,
                 due_date |-> task_data.due_date]
        stored == task_create(ts, next_id, task)
    IN
    IF denied # NoError
    THEN [err |-> denied, val |-> None, tasks |-> ts, notes |-> <<>>]
    ELSE IF invalid # NoError
    THEN [err |-> invalid, val |-> None, tasks |-> stored, notes |-> <<>>]
    ELSE IF env.fk_enforced /\ ~assignee_fk_holds(us, task)
    THEN integrity_failure(ts)
    ELSE LET created_task == stored[next_id]
             sent == IF Truthy(created_task.assigned_to)
                     THEN _send_assignment_notification(us, created_task, env)
                     ELSE [raised |-> FALSE, notes |-> <<>>]
         IN  IF sent.raised
             THEN notification_failure(ts, stored, env)
             ELSE [err |-> NoError,
                   val |-> Some(TaskResponseDTO(created_task, t)),
                   tasks |-> stored,
                   notes |-> sent.notes]

create_task(us, lists, ts, next_id, task_list_id, task_data, user_id, t, env) ==
    LET denied == task_list_access(lists, task_list_id, user_id)
        invalid == verify_assignee(us, task_data.assigned_to)
        task == [id |-> 0,
                 title |-> task_data.title,
                 description |-> task_data.description,
                 status |-> "pending",
                 priority |-> task_data.priority,
                 task_list_id |-> task_list_id,
                 assigned_to |-> task_data.assigned_to,
                 created_at |-> Some(t),
                 updated_at |-> None,
                 due_date |-> task_data.due_date]
        stored == task_create(ts, next_id, task)
    IN
    IF denied # NoError
    THEN [err |-> denied, val |-> None, tasks |-> ts, notes |-> <<>>]
    ELSE IF invalid # NoError
    THEN [err |-> invalid, val |-> None, tasks |-> ts, notes |-> <<>>]
    ELSE IF env.fk_enforced /\ ~assignee_fk_holds(us, task)
    THEN integrity_failure(ts)
    ELSE LET created_task == stored[next_id]
             sent == IF Truthy(created_task.assigned_to)
                     THEN _send_assignment_notification(us, created_task, env)
                     ELSE [raised |-> FALSE, notes |-> <<>>]
         IN  IF sent.raised
             THEN notification_failure(ts, stored, env)
             ELSE [err |-> NoError,
                   val |-> Some(TaskResponseDTO(created_task, t)),
                   tasks |-> stored,
                   notes |-> sent.notes]

\* create_task of a request that was suspended between its checks of the
\* list and its insert: the checks read the lists as they were (seen_lists),
\* the insert meets the tables as they are by then.
create_task_suspended(seen_lists, us, lists, ts, next_id, task_list_id, task_data, user_id, t, env) ==
    LET denied == task_list_access(seen_lists, task_list_id, user_id)
        invalid == verify_assignee(us, task_data.assigned_to)
        task == [id |-> 0,
                 title |-> task_data.title,
                 description |-> task_data.description,
                 status |-> "pending",
                 priority |-> task_data.priority,
                 task_list_id |-> task_list_id,
                 assigned_to |-> task_data.assigned_to,
                 created_at |-> Some(t),
                 updated_at |-> None,
                 due_date |-> task_data.due_date]
        stored == task_create(ts, next_id, task)
    IN
    IF denied # NoError
    THEN [err |-> denied, val |-> None, tasks |-> ts, notes |-> <<>>]
    ELSE IF invalid # NoError
    THEN [err |-> invalid, val |-> None, tasks |-> ts, notes |-> <<>>]
    ELSE IF env.fk_enforced
            /\ (~assignee_fk_holds(us, task) \/ ~task_list_fk_holds(lists, task))
    THEN integrity_failure(ts)
    ELSE LET created_task == stored[next_id]
             sent == IF Truthy(created_task.assigned_to)
                     THEN _send_assignment_notification(us, created_task, env)
                     ELSE [raised |-> FALSE, notes |-> <<>>]
         IN  IF sent.raised
             THEN notification_failure(ts, stored, env)
             ELSE [err |-> NoError,
                   val |-> Some(TaskResponseDTO(created_task, t)),
                   tasks |-> stored,
                   notes |-> sent.notes]

\* The owner lookup of get_task, update_task, update_task_status and
\* delete_task: task_list.owner_id, an AttributeError when the list is gone.
owner_of(lists, task) ==
    LET task_list == list_get_by_id(lists, task.task_list_id) IN
    IF task_list = None THEN None ELSE Some(The(task_list).owner_id)

missing_list == UnhandledError("AttributeError", "'NoneType' object has no attribute 'owner_id'")

\* Access of get_task and update_task_status granted to the owner alone
owner_or_assignee_denied_owner_only(lists, task, user_id) ==
    The(owner_of(lists, task)) # user_id

\* Access of get_task and update_task_status: the list's owner or the assignee.
owner_or_assignee_denied(lists, task, user_id) ==
    The(owner_of(lists, task)) # user_id /\ task.assigned_to # Some(user_id)

\* Access of update_task and delete_task granted to the assignee as well
owner_denied_unless_assignee(lists, task, user_id) ==
    The(owner_of(lists, task)) # user_id /\ task.assigned_to # Some(user_id)

\* Access of update_task and delete_task: the list's owner only.
owner_denied(lists, task, user_id) ==
    The(owner_of(lists, task)) # user_id

get_task(us, lists, ts, task_id, user_id, t) ==
    LET task == task_get_by_id(ts, task_id) IN
    IF task = None
    THEN [err |-> TaskNotFoundError(task_id), val |-> None]
    ELSE IF owner_of(lists, The(task)) = None
    THEN [err |-> missing_list, val |-> None]
    ELSE IF owner_or_assignee_denied(lists, The(task), user_id)
    THEN [err |-> AuthorizationError("You don't have access to this task"), val |-> None]
    ELSE LET assignee_user == IF Truthy(The(task).assigned_to)
                              THEN user_get_by_id(us, The(The(task).assigned_to))
                              ELSE None
             assignee == {UserResponseDTO(u) : u \in assignee_user}
         IN  [err |-> NoError,
              val |-> Some([task |-> TaskResponseDTO(The(task), t), assignee |-> assignee])]

\* update_task notifying the assignee of every update
update_task_always_notifies(us, lists, ts, task_id, update_data, user_id, t, env) ==
    LET found == task_get_by_id(ts, task_id) IN
    IF found = None
    THEN [err |-> TaskNotFoundError(task_id), val |-> None, tasks |-> ts, notes |-> <<>>]
    ELSE IF owner_of(lists, The(found)) = None
    THEN [err |-> missing_list, val |-> None, tasks |-> ts, notes |-> <<>>]
    ELSE IF owner_denied(lists, The(found), user_id)
    THEN [err |-> AuthorizationError("You don't have access to this task"),
          val |-> None, tasks |-> ts, notes |-> <<>>]
    ELSE IF verify_assignee(us, update_data.assigned_to) # NoError
    THEN [err |-> verify_assignee(us, update_data.assigned_to),
          val |-> None, tasks |-> ts, notes |-> <<>>]
    ELSE LET task == The(found)
             old_assignee == task.assigned_to
             t1 == IF update_data.title # None
                   THEN [task EXCEPT !.title = The(update_data.title)] ELSE task
             t2 == IF update_data.description # None
                   THEN [t1 EXCEPT !.description = update_data.description] ELSE t1
             t3 == IF update_data.priority # None
                   THEN [t2 EXCEPT !.priority = The(update_data.priority)] ELSE t2
             t4 == IF update_data.assigned_to # None
                   THEN [t3 EXCEPT !.assigned_to = update_data.assigned_to] ELSE t3
             t5 == IF update_data.due_date # None
                   THEN [t4 EXCEPT !.due_date = update_data.due_date] ELSE t4
             updated_task == [t5 EXCEPT !.updated_at = Some(t)]
             stored == task_update(ts, updated_task)
         IN  IF env.fk_enforced /\ ~assignee_fk_holds(us, updated_task)
             THEN integrity_failure(ts)
             ELSE LET sent == IF Truthy(updated_task.assigned_to)
                              THEN _send_assignment_notification(us, updated_task, env)
                              ELSE [raised |-> FALSE, notes |-> <<>>]
                  IN  IF sent.raised
                      THEN notification_failure(ts, stored, env)
                      ELSE [err |-> NoError,
                            val |-> Some(TaskResponseDTO(updated_task, t)),
                            tasks |-> stored,
                            notes |-> sent.notes]

update_task(us, lists, ts, task_id, update_data, user_id, t, env) ==
    LET found == task_get_by_id(ts, task_id) IN
    IF found = None
    THEN [err |-> TaskNotFoundError(task_id), val |-> None, tasks |-> ts, notes |-> <<>>]
    ELSE IF owner_of(lists, The(found)) = None
    THEN [err |-> missing_list, val |-> None, tasks |-> ts, notes |-> <<>>]
    ELSE IF owner_denied(lists, The(found), user_id)
    THEN [err |-> AuthorizationError("You don't have access to this task"),
          val |-> None, tasks |-> ts, notes |-> <<>>]
    ELSE IF verify_assignee(us, update_data.assigned_to) # NoError
    THEN [err |-> verify_assignee(us, update_data.assigned_to),
          val |-> None, tasks |-> ts, notes |-> <<>>]
    ELSE LET task == The(found)
             old_assignee == task.assigned_to
             t1 == IF update_data.title # None
                   THEN [task EXCEPT !.title = The(update_data.title)] ELSE task
             t2 == IF update_data.description # None
                   THEN [t1 EXCEPT !.description = update_data.description] ELSE t1
             t3 == IF update_data.priority # None
                   THEN [t2 EXCEPT !.priority = The(update_data.priority)] ELSE t2
             t4 == IF update_data.assigned_to # None
                   THEN [t3 EXCEPT !.assigned_to = update_data.assigned_to] ELSE t3
             t5 == IF update_data.due_date # None
                   THEN [t4 EXCEPT !.due_date = update_data.due_date] ELSE t4
             updated_task == [t5 EXCEPT !.updated_at = Some(t)]
             stored == task_update(ts, updated_task)
         IN  IF env.fk_enforced /\ ~assignee_fk_holds(us, updated_task)
             THEN integrity_failure(ts)
             ELSE LET sent == IF old_assignee # updated_task.assigned_to
                                 /\ Truthy(updated_task.assigned_to)
                              THEN _send_assignment_notification(us, updated_task, env)
                              ELSE [raised |-> FALSE, notes |-> <<>>]
                  IN  IF sent.raised
                      THEN notification_failure(ts, stored, env)
                      ELSE [err |-> NoError,
                            val |-> Some(TaskResponseDTO(updated_task, t)),
                            tasks |-> stored,
                            notes |-> sent.notes]

\* update_task of a request that was suspended between its read of the task
\* and its write: the task is read from the tasks as they were (seen) and the
\* whole entity is written to the tasks as they are by then (ts).
update_task_suspended(seen, us, lists, ts, task_id, update_data, user_id, t, env) ==
    LET found == task_get_by_id(seen, task_id) IN
    IF found = None
    THEN [err |-> TaskNotFoundError(task_id), val |-> None, tasks |-> ts, notes |-> <<>>]
    ELSE IF owner_of(lists, The(found)) = None
    THEN [err |-> missing_list, val |-> None, tasks |-> ts, notes |-> <<>>]
    ELSE IF owner_denied(lists, The(found), user_id)
    THEN [err |-> AuthorizationError("You don't have access to this task"),
          val |-> None, tasks |-> ts, notes |-> <<>>]
    ELSE IF verify_assignee(us, update_data.assigned_to) # NoError
    THEN [err |-> verify_assignee(us, update_data.assigned_to),
          val |-> None, tasks |-> ts, notes |-> <<>>]
    ELSE LET task == The(found)
             old_assignee == task.assigned_to
             t1 == IF update_data.title # None
                   THEN [task EXCEPT !.title = The(update_data.title)] ELSE task
             t2 == IF update_data.description # None
                   THEN [t1 EXCEPT !.description = update_data.description] ELSE t1
             t3 == IF update_data.priority # None
                   THEN [t2 EXCEPT !.priority = The(update_data.priority)] ELSE t2
             t4 == IF update_data.assigned_to # None
                   THEN [t3 EXCEPT !.assigned_to = update_data.assigned_to] ELSE t3
             t5 == IF update_data.due_date # None
                   THEN [t4 EXCEPT !.due_date = update_data.due_date] ELSE t4
             updated_task == [t5 EXCEPT !.updated_at = Some(t)]
             stored == task_update(ts, updated_task)
         IN  IF env.fk_enforced /\ ~assignee_fk_holds(us, updated_task)
             THEN integrity_failure(ts)
             ELSE LET sent == IF old_assignee # updated_task.assigned_to
                                 /\ Truthy(updated_task.assigned_to)
                              THEN _send_assignment_notification(us, updated_task, env)
                              ELSE [raised |-> FALSE, notes |-> <<>>]
                  IN  IF sent.raised
                      THEN notification_failure(ts, stored, env)
                      ELSE [err |-> NoError,
                            val |-> Some(TaskResponseDTO(updated_task, t)),
                            tasks |-> stored,
                            notes |-> sent.notes]

\* update_task_status refusing to move a task out of a final status
update_task_status_guarded(lists, ts, task_id, status, user_id, t) ==
    LET task == task_get_by_id(ts, task_id) IN
    IF task = None
    THEN [err |-> TaskNotFoundError(task_id), val |-> None, tasks |-> ts]
    ELSE IF owner_of(lists, The(task)) = None
    THEN [err |-> missing_list, val |-> None, tasks |-> ts]
    ELSE IF owner_or_assignee_denied(lists, The(task), user_id)
    THEN [err |-> AuthorizationError("You don't have access to this task"),
          val |-> None, tasks |-> ts]
    ELSE IF The(task).status \in {"completed", "cancelled"} /\ status # The(task).status
    THEN [err |-> TaskStatusTransitionError(The(task).status, status),
          val |-> None, tasks |-> ts]
    ELSE LET stored == task_update_status(ts, task_id, status, t) IN
         [err |-> NoError,
          val |-> Some(TaskResponseDTO(stored[task_id], t)),
          tasks |-> stored]

update_task_status(lists, ts, task_id, status, user_id, t) ==
    LET task == task_get_by_id(ts, task_id) IN
    IF task = None
    THEN [err |-> TaskNotFoundError(task_id), val |-> None, tasks |-> ts]
    ELSE IF owner_of(lists, The(task)) = None
    THEN [err |-> missing_list, val |-> None, tasks |-> ts]
    ELSE IF owner_or_assignee_denied(lists, The(task), user_id)
    THEN [err |-> AuthorizationError("You don't have access to this task"),
          val |-> None, tasks |-> ts]
    ELSE LET stored == task_update_status(ts, task_id, status, t) IN
         [err |-> NoError,
          val |-> Some(TaskResponseDTO(stored[task_id], t)),
          tasks |-> stored]

delete_task(lists, ts, task_id, user_id) ==
    LET task == task_get_by_id(ts, task_id) IN
    IF task = None
    THEN [err |-> TaskNotFoundError(task_id), val |-> None, tasks |-> ts]
    ELSE IF owner_of(lists, The(task)) = None
    THEN [err |-> missing_list, val |-> None, tasks |-> ts]
    ELSE IF owner_denied(lists, The(task), user_id)
    THEN [err |-> AuthorizationError("You don't have access to this task"),
          val |-> None, tasks |-> ts]
    ELSE [err |-> NoError,
          val |-> Some(task_delete_result(ts, task_id)),
          tasks |-> task_delete(ts, task_id)]

\* delete_task of a request that was suspended between its checks and its
\* delete: the checks read the tables as they were (seen_lists, seen), the
\* delete meets the tasks as they are by then (ts).
delete_task_suspended(seen_lists, seen, ts, task_id, user_id) ==
    LET task == task_get_by_id(seen, task_id) IN
    IF task = None
    THEN [err |-> TaskNotFoundError(task_id), val |-> None, tasks |-> ts]
    ELSE IF owner_of(seen_lists, The(task)) = None
    THEN [err |-> missing_list, val |-> None, tasks |-> ts]
    ELSE IF owner_denied(seen_lists, The(task), user_id)
    THEN [err |-> AuthorizationError("You don't have access to this task"),
          val |-> None, tasks |-> ts]
    ELSE [err |-> NoError,
          val |-> Some(task_delete_result(ts, task_id)),
          tasks |-> task_delete(ts, task_id)]

\* DELETE /api/v1/tasks/{id}: the status of the response. An exception that
\* is no TaskManagerException matches no registered handler: 500.
delete_task_endpoint(r) ==
    IF r.err # NoError
    THEN IF r.err.kind = "Unhandled" THEN 500
         ELSE task_manager_exception_handler(r.err).status_code
    ELSE IF ~The(r.val) THEN 404
    ELSE 200

list_tasks(lists, ts, task_list_id, filters, pagination, user_id, t) ==
    LET denied == task_list_access(lists, task_list_id, user_id) IN
    IF denied # NoError
    THEN [err |-> denied, val |-> None]
    ELSE LET page == task_get_by_task_list(ts, task_list_id, pagination.skip,
                                           pagination.limit, filters.status, filters.priority)
             Overdue(task) == is_overdue(task, t)
             Assigned(task) == task.assigned_to = filters.assigned_to
             due == IF filters.overdue_only THEN SelectSeq(page, Overdue) ELSE page
             kept == IF Truthy(filters.assigned_to) THEN SelectSeq(due, Assigned) ELSE due
         IN  [err |-> NoError,
              val |-> Some([k \in 1..Len(kept) |-> TaskResponseDTO(kept[k], t)])]

Init ==
    /\ users = <<>>
    /\ task_lists = <<>>
    /\ tasks = <<>>
    /\ next_list_id = 1
    /\ next_task_id = 1
    /\ now = 0
    /\ issued = {}

(***************************************************************************)
(* Actions of the authentication service                                   *)
(***************************************************************************)
\* POST /auth/register
Register(user_data, salt) ==
    /\ Len(users) < MaxUsers
    /\ users' = register_user(users, user_data, salt).users
    /\ UNCHANGED <<task_lists, tasks, next_list_id, next_task_id, now, issued>>

\* Two POST /auth/register requests served concurrently: the second runs its
\* email check before the first inserts, and its username check before that
\* insert or (late) after it; then it inserts.
RegisterConcurrently(first, second, salt, late) ==
    /\ Len(users) + 1 < MaxUsers
    /\ LET r1 == register_user_suspended(users, users, users, first, salt)
           r2 == register_user_suspended(users, IF late THEN r1.users ELSE users,
                                         r1.users, second, salt)
       IN  users' = r2.users
    /\ UNCHANGED <<task_lists, tasks, next_list_id, next_task_id, now, issued>>

\* An account is deactivated or reactivated (UserRepository.update).
SetActive(user_id, is_active) ==
    /\ user_id \in UserIds
    /\ users[user_id].is_active # is_active
    /\ users' = user_update_is_active(users, user_id, is_active)
    /\ UNCHANGED <<task_lists, tasks, next_list_id, next_task_id, now, issued>>

\* POST /auth/login: the client keeps the token of a successful login.
Login(login_data) ==
    /\ LET r == authenticate_user(users, login_data, now) IN
       issued' = IF r.err = NoError /\ Cardinality(issued) < MaxTokens
                 THEN issued \cup {The(r.val).access_token}
                 ELSE issued
    /\ UNCHANGED <<users, task_lists, tasks, next_list_id, next_task_id, now>>

\* The bearer-token dependency of every authenticated endpoint: read-only,
\* its outcome is get_current_user(users, token, now).
GetCurrentUser(token) ==
    /\ token.wellformed \in BOOLEAN
    /\ UNCHANGED vars

\* Time passes.
Tick ==
    /\ now + TickMinutes <= MaxTime
    /\ now' = now + TickMinutes
    /\ UNCHANGED <<users, task_lists, tasks, next_list_id, next_task_id, issued>>

(***************************************************************************)
(* Actions of the task-list service.  The requester of every action below  *)
(* is the user the bearer token resolved to.                               *)
(***************************************************************************)
\* POST /api/v1/task-lists/
CreateTaskList(task_list_data, user_id) ==
    /\ user_id \in UserIds
    /\ next_list_id <= MaxLists
    /\ task_lists' = create_task_list(task_lists, next_list_id, task_list_data,
                                      user_id, now).lists
    /\ next_list_id' = next_list_id + 1
    /\ UNCHANGED <<users, tasks, next_task_id, now, issued>>

\* POST /api/v1/task-lists/, as one of the requests that open several lists
CreateSiblingTaskList(task_list_data, user_id) ==
    /\ user_id \in UserIds
    /\ next_list_id <= MaxSiblingLists
    /\ task_lists' = create_task_list(task_lists, next_list_id, task_list_data,
                                      user_id, now).lists
    /\ next_list_id' = next_list_id + 1
    /\ UNCHANGED <<users, tasks, next_task_id, now, issued>>

\* GET /api/v1/task-lists/{id}: read-only, its outcome is
\* get_task_list(task_lists, tasks, task_list_id, user_id, now).
GetTaskList(task_list_id, user_id) ==
    /\ user_id \in UserIds
    /\ UNCHANGED vars

\* PUT /api/v1/task-lists/{id}
UpdateTaskList(task_list_id, update_data, user_id, tasks_loaded) ==
    /\ user_id \in UserIds
    /\ task_lists' = update_task_list(task_lists, tasks, task_list_id, update_data,
                                      user_id, now, tasks_loaded).lists
    /\ UNCHANGED <<users, tasks, next_list_id, next_task_id, now, issued>>

\* Two PUT /api/v1/task-lists/{id} of the same list served concurrently: the
\* second reads the list, the first runs to its end, then the second writes.
UpdateTaskListConcurrently(task_list_id, first_data, first_user, second_data, second_user, loaded) ==
    /\ first_user \in UserIds
    /\ second_user \in UserIds
    /\ LET r1 == update_task_list(task_lists, tasks, task_list_id, first_data, first_user,
                                  now, loaded)
           r2 == update_task_list_suspended(task_lists, r1.lists, tasks, task_list_id,
                                            second_data, second_user, now, loaded)
       IN  task_lists' = r2.lists
    /\ UNCHANGED <<users, tasks, next_list_id, next_task_id, now, issued>>

\* DELETE /api/v1/task-lists/{id}
DeleteTaskList(task_list_id, user_id) ==
    /\ user_id \in UserIds
    /\ LET r == delete_task_list(task_lists, tasks, task_list_id, user_id) IN
       /\ task_lists' = r.lists
       /\ tasks' = r.tasks
    /\ UNCHANGED <<users, next_list_id, next_task_id, now, issued>>

\* Two DELETE /api/v1/task-lists/{id} requests served concurrently: both run
\* their checks before either deletes, then the first deletes, then the
\* second.
DeleteTaskListConcurrently(task_list_id, first, second) ==
    /\ first \in UserIds
    /\ second \in UserIds
    /\ LET r1 == delete_task_list_suspended(task_lists, task_lists, tasks, task_list_id, first)
           r2 == delete_task_list_suspended(task_lists, r1.lists, r1.tasks, task_list_id, second)
       IN  /\ task_lists' = r2.lists
           /\ tasks' = r2.tasks
    /\ UNCHANGED <<users, next_list_id, next_task_id, now, issued>>

\* GET /api/v1/task-lists/: read-only, its outcome is
\* list_user_task_lists(task_lists, tasks, user_id, pagination).
ListUserTaskLists(pagination, user_id) ==
    /\ user_id \in UserIds
    /\ pagination.skip >= 0
    /\ UNCHANGED vars

(***************************************************************************)
(* Actions of the task service                                             *)
(***************************************************************************)
\* POST /api/v1/tasks/
CreateTask(task_list_id, task_data, user_id, env) ==
    /\ user_id \in UserIds
    /\ next_task_id <= MaxTasks
    /\ LET r == create_task(users, task_lists, tasks, next_task_id, task_list_id,
                            task_data, user_id, now, env) IN
       /\ tasks' = r.tasks
       /\ next_task_id' = IF r.tasks # tasks THEN next_task_id + 1 ELSE next_task_id
    /\ UNCHANGED <<users, task_lists, next_list_id, now, issued>>

\* POST /api/v1/tasks/, as one of the requests that put tasks into several
\* lists
CreateSiblingTask(task_list_id, task_data, user_id, env) ==
    /\ user_id \in UserIds
    /\ next_task_id <= MaxSiblingTasks
    /\ LET r == create_task(users, task_lists, tasks, next_task_id, task_list_id,
                            task_data, user_id, now, env) IN
       /\ tasks' = r.tasks
       /\ next_task_id' = IF r.tasks # tasks THEN next_task_id + 1 ELSE next_task_id
    /\ UNCHANGED <<users, task_lists, next_list_id, now, issued>>

\* POST /api/v1/tasks/ served concurrently with DELETE /api/v1/task-lists/{id}
\* of the same list: create_task checks the list, delete_task_list runs, then
\* create_task inserts.
CreateTaskDuringDelete(task_list_id, task_data, creator, deleter, env) ==
    /\ creator \in UserIds
    /\ deleter \in UserIds
    /\ next_task_id <= MaxSiblingTasks
    /\ LET d == delete_task_list(task_lists, tasks, task_list_id, deleter)
           r == create_task_suspended(task_lists, users, d.lists, d.tasks, next_task_id,
                                      task_list_id, task_data, creator, now, env)
       IN  /\ task_lists' = d.lists
           /\ tasks' = r.tasks
           /\ next_task_id' = IF r.tasks # d.tasks THEN next_task_id + 1 ELSE next_task_id
    /\ UNCHANGED <<users, next_list_id, now, issued>>

\* POST /api/v1/tasks/, as one of the many requests that fill a long list
FillTaskList(task_list_id, task_data, user_id, env) ==
    /\ user_id \in UserIds
    /\ next_task_id <= MaxLongList
    /\ LET r == create_task(users, task_lists, tasks, next_task_id, task_list_id,
                            task_data, user_id, now, env) IN
       /\ tasks' = r.tasks
       /\ next_task_id' = IF r.tasks # tasks THEN next_task_id + 1 ELSE next_task_id
    /\ UNCHANGED <<users, task_lists, next_list_id, now, issued>>

\* GET /api/v1/tasks/{id}: read-only, its outcome is
\* get_task(users, task_lists, tasks, task_id, user_id, now).
GetTask(task_id, user_id) ==
    /\ user_id \in UserIds
    /\ UNCHANGED vars

\* PUT /api/v1/tasks/{id} and POST /api/v1/tasks/{id}/assign/{user_id}
UpdateTask(task_id, update_data, user_id, env) ==
    /\ user_id \in UserIds
    /\ tasks' = update_task(users, task_lists, tasks, task_id, update_data,
                            user_id, now, env).tasks
    /\ UNCHANGED <<users, task_lists, next_list_id, next_task_id, now, issued>>

\* PUT /api/v1/tasks/{id} served concurrently with PATCH /api/v1/tasks/{id}/status
\* of the same task: update_task reads the task, update_task_status runs, then
\* update_task writes.
UpdateTaskDuringStatusUpdate(task_id, update_data, updater, status, status_updater, env) ==
    /\ updater \in UserIds
    /\ status_updater \in UserIds
    /\ LET moved == update_task_status(task_lists, tasks, task_id, status, status_updater, now)
           r == update_task_suspended(tasks, users, task_lists, moved.tasks, task_id,
                                      update_data, updater, now, env)
       IN  tasks' = r.tasks
    /\ UNCHANGED <<users, task_lists, next_list_id, next_task_id, now, issued>>

\* Two PUT /api/v1/tasks/{id} (or a PUT and POST /api/v1/tasks/{id}/assign/
\* {user_id}) of the same task served concurrently: the second reads the
\* task, the first runs to its end, then the second writes.
UpdateTaskConcurrently(task_id, first_data, first_user, second_data, second_user, env) ==
    /\ first_user \in UserIds
    /\ second_user \in UserIds
    /\ LET r1 == update_task(users, task_lists, tasks, task_id, first_data, first_user,
                             now, env)
           r2 == update_task_suspended(tasks, users, task_lists, r1.tasks, task_id,
                                       second_data, second_user, now, env)
       IN  tasks' = r2.tasks
    /\ UNCHANGED <<users, task_lists, next_list_id, next_task_id, now, issued>>

\* PATCH /api/v1/tasks/{id}/status
UpdateTaskStatus(task_id, status, user_id) ==
    /\ user_id \in UserIds
    /\ tasks' = update_task_status(task_lists, tasks, task_id, status, user_id, now).tasks
    /\ UNCHANGED <<users, task_lists, next_list_id, next_task_id, now, issued>>

\* DELETE /api/v1/tasks/{id}
DeleteTask(task_id, user_id) ==
    /\ user_id \in UserIds
    /\ tasks' = delete_task(task_lists, tasks, task_id, user_id).tasks
    /\ UNCHANGED <<users, task_lists, next_list_id, next_task_id, now, issued>>

\* Two DELETE /api/v1/tasks/{id} requests served concurrently: both run their
\* checks before either deletes, then the first deletes, then the second.
DeleteTaskConcurrently(task_id, first, second) ==
    /\ first \in UserIds
    /\ second \in UserIds
    /\ LET r1 == delete_task_suspended(task_lists, tasks, tasks, task_id, first)
           r2 == delete_task_suspended(task_lists, tasks, r1.tasks, task_id, second)
       IN  tasks' = r2.tasks
    /\ UNCHANGED <<users, task_lists, next_list_id, next_task_id, now, issued>>

\* GET /api/v1/tasks/: read-only, its outcome is
\* list_tasks(task_lists, tasks, task_list_id, filters, pagination, user_id, now).
ListTasks(task_list_id, filters, pagination, user_id) ==
    /\ user_id \in UserIds
    /\ UNCHANGED vars

(***************************************************************************)
(* Inputs                                                                  *)
(***************************************************************************)
Emails == {"a@x.com", "b@x.com"}
Usernames == {"alice", "a@x.com"}
Passwords == {"longenoughpw", "otherpassword"}
Salts == {"salt1", "salt2"}
Identifiers == Emails \cup Usernames \cup {"nobody"}

UserCreateDTOs ==
    [email : Emails, username : Usernames, full_name : {None}, password : Passwords]

LoginDTOs == [email : Identifiers, password : Passwords]

\* Tokens a client can present: the ones login issued, the same with a claim
\* altered (the signature no longer matches), tokens signed under another
\* key, tokens signed with the service's key that carry no sub, the id of no
\* user or an empty sub, and strings that are no token at all.
PresentedTokens ==
    issued
    \cup {[tk EXCEPT !.sub = Some(str((int(The(tk.sub)) % MaxUsers) + 1))] : tk \in issued}
    \cup {[tk EXCEPT !.exp = tk.exp + access_token_expire_minutes] : tk \in issued}
    \cup {jwt_encode(Some(str(1)), now + access_token_expire_minutes, "another-key")}
    \cup {_create_access_token(None, now)}
    \cup {_create_access_token(Some(str(Len(users) + 1)), now)}
    \cup {_create_access_token(Some(<<>>), now)}
    \cup {[wellformed |-> FALSE, sub |-> None, exp |-> 0, sig |-> Sign(None, 0, "")]}

NextAuth ==
    \/ \E user_data \in UserCreateDTOs : Register(user_data, "salt1")
    \/ \E user_id \in UserIds, is_active \in BOOLEAN : SetActive(user_id, is_active)
    \/ \E login_data \in LoginDTOs : Login(login_data)
    \/ \E token \in PresentedTokens : GetCurrentUser(token)
    \/ \E u \in UserIds : CreateTaskList([name |-> "Groceries", description |-> None], u)
    \/ \E id \in 1..(MaxLists + 1), u \in UserIds : DeleteTaskList(id, u)
    \/ Tick

\* The authentication service, with the clock and the task lists of its users.
SpecAuth == Init /\ [][NextAuth]_vars

NextRace ==
    \/ \E user_data \in UserCreateDTOs, salt \in Salts : Register(user_data, salt)
    \/ \E first \in UserCreateDTOs, second \in UserCreateDTOs, salt \in Salts,
             late \in BOOLEAN :
          RegisterConcurrently(first, second, salt, late)
    \/ \E user_id \in UserIds, is_active \in BOOLEAN : SetActive(user_id, is_active)

\* Registration with requests that overlap.
SpecRace == Init /\ [][NextRace]_vars

\* Passwords longer than bcrypt reads: UserCreateDTO admits up to 100
\* characters, LoginDTO any length.  Two that differ in their 73rd character
\* only.
LongPasswords ==
    {"aaaaaaaaaaaaaaaaaaaaaaaaaaaaaaaaaaaaaaaaaaaaaaaaaaaaaaaaaaaaaaaaaaaaaaaa" \o "X",
     "aaaaaaaaaaaaaaaaaaaaaaaaaaaaaaaaaaaaaaaaaaaaaaaaaaaaaaaaaaaaaaaaaaaaaaaa" \o "Y"}

LongPasswordLogins == [email : Identifiers, password : LongPasswords \cup Passwords]

NextPasswords ==
    \/ \E user_data \in [email : Emails, username : Usernames, full_name : {None},
                          password : LongPasswords \cup {"longenoughpw"}] :
          Register(user_data, "salt1")
    \/ \E user_id \in UserIds, is_active \in BOOLEAN : SetActive(user_id, is_active)
    \/ \E login_data \in LongPasswordLogins : Login(login_data)
    \/ Tick

\* The authentication service with passwords of more than 72 characters.
SpecPasswords == Init /\ [][NextPasswords]_vars

\* The accounts the task-list and task requests are made from.
Accounts ==
    {[email |-> "a@x.com", username |-> "alice", full_name |-> None,
      password |-> "longenoughpw"],
     [email |-> "b@x.com", username |-> "a@x.com", full_name |-> None,
      password |-> "otherpassword"]}

\* Ids a request can name: the ones ever handed out and one never handed out.
ListIds == 1..(MaxLists + 1)
TaskIds == 1..(MaxTasks + 1)

TaskListCreateDTOs == [name : {"Groceries"}, description : {None}]

TaskListUpdateDTOs ==
    [name : {None, Some("Chores")}, description : {None, Some("weekly")}]

\* The task the owner of a list puts into it.
PlainTask ==
    [title |-> "Milk", description |-> None, priority |-> "medium",
     assigned_to |-> None, due_date |-> None]

\* Mail delivered, no foreign-key check, writes kept.
PlainDeployment ==
    [email_enabled |-> TRUE, notifier_returns |-> TRUE, fk_enforced |-> FALSE, committed |-> TRUE]

NextLists ==
    \/ \E user_data \in Accounts : Register(user_data, "salt1")
    \/ \E id \in ListIds, u \in UserIds : CreateTask(id, PlainTask, u, PlainDeployment)
    \/ \E id \in TaskIds, u \in UserIds : UpdateTaskStatus(id, "completed", u)
    \/ \E d \in [name : {"Groceries", "Errands"}, description : {None}], u \in UserIds :
          CreateTaskList(d, u)
    \/ \E id \in ListIds, u \in UserIds : GetTaskList(id, u)
    \/ \E id \in ListIds, d \in TaskListUpdateDTOs, u \in UserIds, loaded \in BOOLEAN :
          UpdateTaskList(id, d, u, loaded)
    \/ \E id \in ListIds, u \in UserIds : DeleteTaskList(id, u)

\* The task-list service.
SpecLists == Init /\ [][NextLists]_vars

\* What the deployment decides for a request: every combination.
Envs ==
    [email_enabled : BOOLEAN, notifier_returns : BOOLEAN,
     fk_enforced : BOOLEAN, committed : BOOLEAN]

\* The deployments the writes are explored under: the notification sent and
\* no foreign-key check; a notification service that raises, with the write
\* kept; the same with the foreign key checked and the write rolled back.
Deployments ==
    {[email_enabled |-> TRUE, notifier_returns |-> TRUE, fk_enforced |-> FALSE, committed |-> TRUE],
     [email_enabled |-> TRUE, notifier_returns |-> FALSE, fk_enforced |-> FALSE, committed |-> TRUE],
     [email_enabled |-> TRUE, notifier_returns |-> FALSE, fk_enforced |-> TRUE, committed |-> FALSE]}

\* assigned_to of a request: absent, 0, a user id, or an id one past the last
\* account that can exist.
Assignees == {None} \cup {Some(i) : i \in 0..(MaxUsers + 1)}

TaskCreateDTOs ==
    [title : {"Milk"}, description : {None}, priority : {"medium"},
     assigned_to : Assignees, due_date : {None}]

TaskUpdateDTOs ==
    [title : {None}, description : {None}, priority : {None},
     assigned_to : Assignees, due_date : {None}]

TaskFilterDTOs ==
    [status : {None}, priority : {None}, assigned_to : {None}, overdue_only : {FALSE}]

PaginationDTOs == [skip : {0}, limit : {default_limit}]

Next ==
    \/ \E user_data \in Accounts : Register(user_data, "salt1")
    \/ \E user_id \in UserIds, is_active \in BOOLEAN : SetActive(user_id, is_active)
    \/ \E d \in TaskListCreateDTOs, u \in UserIds : CreateTaskList(d, u)
    \/ \E id \in ListIds, u \in UserIds : DeleteTaskList(id, u)
    \/ \E id \in ListIds, d \in TaskCreateDTOs, u \in UserIds, env \in Deployments :
          CreateTask(id, d, u, env)
    \/ \E id \in TaskIds, u \in UserIds : GetTask(id, u)
    \/ \E id \in TaskIds, d \in TaskUpdateDTOs, u \in UserIds, env \in Deployments :
          UpdateTask(id, d, u, env)
    \/ \E id \in TaskIds, st \in {"completed"}, u \in UserIds : UpdateTaskStatus(id, st, u)
    \/ \E id \in TaskIds, u \in UserIds : DeleteTask(id, u)
    \/ \E id \in ListIds, f \in TaskFilterDTOs, p \in PaginationDTOs, u \in UserIds :
          ListTasks(id, f, p, u)

\* The task service, over the accounts and the task lists.
Spec == Init /\ [][Next]_vars

\* The task put into a list for the other account.
DelegatedTask == [PlainTask EXCEPT !.assigned_to = Some(2)]

NextStatus ==
    \/ \E user_data \in Accounts : Register(user_data, "salt1")
    \/ \E d \in TaskListCreateDTOs, u \in UserIds : CreateTaskList(d, u)
    \/ \E id \in ListIds, d \in {PlainTask, DelegatedTask}, u \in UserIds :
          CreateTask(id, d, u, PlainDeployment)
    \/ \E id \in TaskIds, st \in TaskStatus, u \in UserIds : UpdateTaskStatus(id, st, u)
    \/ Tick

\* Tasks moved between all their statuses by owners and assignees.
SpecStatus == Init /\ [][NextStatus]_vars

\* Ids a request can name where several lists exist
SiblingListIds == 1..(MaxSiblingLists + 1)
SiblingTaskIds == 1..(MaxSiblingTasks + 1)

NextCascade ==
    \/ \E user_data \in Accounts : Register(user_data, "salt1")
    \/ \E d \in TaskListCreateDTOs, u \in UserIds : CreateSiblingTaskList(d, u)
    \/ \E id \in SiblingListIds, u \in UserIds :
          CreateSiblingTask(id, PlainTask, u, PlainDeployment)
    \/ \E id \in SiblingTaskIds, u \in UserIds : UpdateTaskStatus(id, "completed", u)
    \/ \E id \in SiblingListIds, u \in UserIds : DeleteTaskList(id, u)
    \/ \E id \in SiblingListIds, u \in UserIds : GetTaskList(id, u)
    \/ \E id \in SiblingTaskIds, u \in UserIds : GetTask(id, u)

\* Several task lists with tasks, deleted one by one.
SpecCascade == Init /\ [][NextCascade]_vars

\* The update of a task that is applied: a due date.
AppliedTaskUpdates ==
    {[title |-> None, description |-> None, priority |-> None,
      assigned_to |-> None, due_date |-> Some(TickMinutes)]}

\* The update of a task list that is applied: a description.
AppliedTaskListUpdates == {[name |-> None, description |-> Some("weekly")]}

NextUpdates ==
    \/ \E user_data \in Accounts : Register(user_data, "salt1")
    \/ \E d \in TaskListCreateDTOs, u \in UserIds : CreateSiblingTaskList(d, u)
    \/ \E id \in SiblingListIds, u \in UserIds :
          CreateSiblingTask(id, PlainTask, u, PlainDeployment)
    \/ \E id \in SiblingListIds, d \in AppliedTaskListUpdates, u \in UserIds :
          UpdateTaskList(id, d, u, FALSE)
    \/ \E id \in SiblingTaskIds, d \in AppliedTaskUpdates, u \in UserIds :
          UpdateTask(id, d, u, PlainDeployment)
    \/ \E id \in SiblingListIds, second \in AppliedTaskListUpdates, u \in UserIds :
          UpdateTaskListConcurrently(id, [name |-> Some("Chores"), description |-> None], u,
                                     second, u, FALSE)
    \/ \E id \in SiblingTaskIds, second \in AppliedTaskUpdates, u \in UserIds :
          UpdateTaskConcurrently(id, [title |-> None, description |-> None,
                                      priority |-> None, assigned_to |-> Some(2),
                                      due_date |-> None],
                                 u, second, u, PlainDeployment)

\* Several task lists and tasks, updated field by field.
SpecUpdates == Init /\ [][NextUpdates]_vars

\* The deployments on a database that enforces the foreign keys of the
\* schema (the configured PostgreSQL); PlainDeployment is a database that
\* does not (SQLite as the integration tests open it).
EnforcingDeployments == {env \in Envs : env.fk_enforced /\ env.email_enabled /\ env.notifier_returns}

NextOverlap ==
    \/ \E user_data \in Accounts : Register(user_data, "salt1")
    \/ \E d \in TaskListCreateDTOs, u \in UserIds : CreateSiblingTaskList(d, u)
    \/ \E id \in SiblingListIds, u \in UserIds :
          CreateSiblingTask(id, PlainTask, u, PlainDeployment)
    \/ \E id \in SiblingTaskIds, first \in UserIds, second \in UserIds :
          DeleteTaskConcurrently(id, first, second)
    \/ \E id \in SiblingListIds, first \in UserIds, second \in UserIds :
          DeleteTaskListConcurrently(id, first, second)
    \/ \E id \in SiblingListIds, creator \in UserIds, deleter \in UserIds,
          env \in EnforcingDeployments \cup {PlainDeployment} :
          CreateTaskDuringDelete(id, PlainTask, creator, deleter, env)
    \/ \E id \in SiblingTaskIds, d \in AppliedTaskUpdates, updater \in UserIds,
          status_updater \in UserIds :
          UpdateTaskDuringStatusUpdate(id, d, updater, "completed", status_updater,
                                       PlainDeployment)

\* Task lists and tasks under requests that overlap.
SpecOverlap == Init /\ [][NextOverlap]_vars

\* The task with a due date one tick after the start
DatedTask == [PlainTask EXCEPT !.due_date = Some(TickMinutes)]

NextOverdue ==
    \/ \E user_data \in Accounts : Register(user_data, "salt1")
    \/ \E d \in TaskListCreateDTOs, u \in UserIds : CreateTaskList(d, u)
    \/ \E id \in ListIds, d \in {PlainTask, DatedTask}, u \in UserIds :
          CreateTask(id, d, u, PlainDeployment)
    \/ \E id \in TaskIds, st \in {"completed", "cancelled"}, u \in UserIds :
          UpdateTaskStatus(id, st, u)
    \/ \E id \in TaskIds, u \in UserIds : GetTask(id, u)
    \/ \E id \in ListIds, f \in TaskFilterDTOs, p \in PaginationDTOs, u \in UserIds :
          ListTasks(id, f, p, u)
    \/ Tick

\* Tasks with and without a due date while the clock advances.
SpecOverdue == Init /\ [][NextOverdue]_vars

NextErrors ==
    \/ \E user_data \in Accounts : Register(user_data, "salt1")
    \/ \E user_id \in UserIds, is_active \in BOOLEAN : SetActive(user_id, is_active)
    \/ \E d \in TaskListCreateDTOs, u \in UserIds : CreateTaskList(d, u)
    \/ \E id \in ListIds, d \in {PlainTask, DelegatedTask}, u \in UserIds :
          CreateTask(id, d, u, PlainDeployment)
    \/ \E id \in TaskIds, u \in UserIds : DeleteTask(id, u)
    \/ \E id \in ListIds, u \in UserIds : DeleteTaskList(id, u)
    \/ Tick

\* Requests that fail, over accounts, task lists and tasks.
SpecErrors == Init /\ [][NextErrors]_vars

\* The tasks of a long list whose status is set or that are deleted: the
\* first and the last one.
LongListTaskIds == {1, MaxLongList}

NextLongList ==
    \/ \E user_data \in Accounts : Register(user_data, "salt1")
    \/ \E d \in TaskListCreateDTOs, u \in UserIds : CreateTaskList(d, u)
    \/ \E u \in UserIds : FillTaskList(1, PlainTask, u, PlainDeployment)
    \/ \E id \in LongListTaskIds, u \in UserIds : UpdateTaskStatus(id, "completed", u)
    \/ \E u \in UserIds : DeleteTask(1, u)
    \/ \E id \in ListIds, u \in UserIds : GetTaskList(id, u)
    \/ \E p \in PaginationDTOs, u \in UserIds : ListUserTaskLists(p, u)

\* The task-list service over a list that grows long.
SpecLongList == Init /\ [][NextLongList]_vars

(***************************************************************************)
(* Properties of the authentication service (SpecAuth)                     *)
(***************************************************************************)
\* The stored users a register or login request collides with or resolves to,
\* read off the users table.
SameEmail(email) == {i \in UserIds : users[i].email = email}
SameUsername(username) == {i \in UserIds : users[i].username = username}

\* C1: no two distinct stored users share an email and no two share a
\* username; a register call whose email or username equals that of a stored
\* user fails with the duplicate error of that field (email checked first) and
\* adds no user.
C1_UniqueEmailAndUsername ==
    /\ \A i, j \in UserIds :
          i # j => users[i].email # users[j].email /\ users[i].username # users[j].username
    /\ \A d \in UserCreateDTOs, salt \in Salts :
          LET r == register_user(users, d, salt) IN
          /\ SameEmail(d.email) # {} =>
                r.err = EmailAlreadyExistsError(d.email) /\ r.val = None /\ r.users = users
          /\ SameEmail(d.email) = {} /\ SameUsername(d.username) # {} =>
                r.err = UsernameAlreadyExistsError(d.username) /\ r.val = None /\ r.users = users
          /\ SameEmail(d.email) = {} /\ SameUsername(d.username) = {} =>
                r.err = NoError /\ Len(r.users) = Len(users) + 1

\* Two users are stored, and a registration under a fresh email with a taken
\* username is turned down while one under a taken email is turned down too.
C1_Witness ==
    /\ Len(users) = 2
    /\ users[1].email # users[2].email
    /\ \E d \in UserCreateDTOs :
          /\ SameEmail(d.email) # {}
          /\ register_user(users, d, "salt1").err.type = "EmailAlreadyExistsError"
    /\ \E i \in UserIds, d \in UserCreateDTOs :
          /\ d.username = users[i].username
          /\ d.email # users[i].email
          /\ register_user(<<users[i]>>, d, "salt1").err.type = "UsernameAlreadyExistsError"

\* The user a login identifier resolves to: a match on email wins over a
\* match on username.
Resolved(identifier) ==
    IF SameEmail(identifier) # {} THEN SameEmail(identifier) ELSE SameUsername(identifier)

\* The password a stored user registered with, as far as bcrypt read it.
RegisteredPassword(i) == users[i].hashed_password.digest[3]

InvalidCredentials == AuthenticationError("Invalid credentials")
AccountInactive == AuthenticationError("User account is inactive")

\* C5: login fails with one and the same InvalidCredentials error (type, code
\* and message) when the identifier resolves to no user and when the password
\* does not verify; for an active user the registration password logs in and
\* every other password fails.
C5_LoginInvalidCredentials ==
    \A d \in LoginDTOs :
        LET r == authenticate_user(users, d, now) IN
        /\ Resolved(d.email) = {} => r.err = InvalidCredentials /\ r.val = None
        /\ \A i \in Resolved(d.email) :
              /\ d.password # RegisteredPassword(i) =>
                    r.err = InvalidCredentials /\ r.val = None
              /\ users[i].is_active /\ d.password = RegisteredPassword(i) =>
                    /\ r.err = NoError
                    /\ r.val # None
                    /\ The(r.val).access_token.sub = Some(str(i))

\* An active user has logged in, and in the same state an unknown identifier
\* and a wrong password are both turned down.
C5_Witness ==
    /\ issued # {}
    /\ \E i \in UserIds, p \in Passwords :
          /\ users[i].is_active
          /\ p # RegisteredPassword(i)
          /\ authenticate_user(users, [email |-> users[i].email, password |-> p], now).err
                = authenticate_user(users, [email |-> "nobody", password |-> p], now).err
          /\ authenticate_user(users, [email |-> users[i].email,
                                       password |-> RegisteredPassword(i)], now).err = NoError

\* C6: a found user with the correct password and is_active false gets the
\* AccountInactive error, which differs from InvalidCredentials; an inactive
\* user with a wrong password gets InvalidCredentials; neither gets a token.
C6_LoginInactive ==
    /\ AccountInactive # InvalidCredentials
    /\ \A d \in LoginDTOs :
          LET r == authenticate_user(users, d, now) IN
          \A i \in Resolved(d.email) :
              ~users[i].is_active =>
                  /\ r.val = None
                  /\ r.err = IF d.password = RegisteredPassword(i)
                             THEN AccountInactive
                             ELSE InvalidCredentials

\* A deactivated user presents the right and a wrong password.
C6_Witness ==
    \E i \in UserIds, p \in Passwords :
        /\ ~users[i].is_active
        /\ p # RegisteredPassword(i)
        /\ authenticate_user(users, [email |-> users[i].email,
                                     password |-> RegisteredPassword(i)], now).err
              = AccountInactive
        /\ authenticate_user(users, [email |-> users[i].email, password |-> p], now).err
              = InvalidCredentials

\* p is a password the stored hash of user i was made from.
HashedFrom(i, p) ==
    users[i].hashed_password = _hash_password(p, users[i].hashed_password.salt)

\* C5 as stated: login fails with the same InvalidCredentials error for an
\* unknown identifier and for a password that does not verify; for an active
\* user the password given at registration logs in and every other password
\* fails.
C5_AsStated ==
    \A d \in LongPasswordLogins :
        LET r == authenticate_user(users, d, now) IN
        /\ Resolved(d.email) = {} => r.err = InvalidCredentials /\ r.val = None
        /\ \A i \in Resolved(d.email), p \in LongPasswords \cup Passwords :
              (users[i].is_active /\ HashedFrom(i, p)) =>
                  IF d.password = p
                  THEN r.err = NoError /\ r.val # None
                  ELSE r.err = InvalidCredentials /\ r.val = None

\* C6 as stated: an inactive user with the password given at registration
\* gets AccountInactive, with any other password InvalidCredentials, and no
\* token either way.
C6_AsStated ==
    \A d \in LongPasswordLogins :
        LET r == authenticate_user(users, d, now) IN
        \A i \in Resolved(d.email), p \in LongPasswords \cup Passwords :
            (~users[i].is_active /\ HashedFrom(i, p)) =>
                /\ r.val = None
                /\ r.err = IF d.password = p THEN AccountInactive ELSE InvalidCredentials

\* An issued token is accepted, for the user of its sub, before its expiry and
\* rejected as invalid after it, whatever has happened since its login.
IssuedTokensFollowTheClock ==
    \A tok \in issued :
        LET r == get_current_user(users, tok, now) IN
        /\ now < tok.exp =>
              /\ r.err = NoError
              /\ Some(str(The(r.val).id)) = tok.sub
        /\ now > tok.exp => r.err = AuthenticationError("Invalid token") /\ r.val = None

\* A login at time t issues a token that expires at t + ttl.
LoginStampsExpiry ==
    \A tok \in issued' \ issued : tok.exp = now + access_token_expire_minutes

\* Nothing but the clock turns an accepted token into a rejected one.
OnlyTheClockInvalidates ==
    \A tok \in issued :
        (now' = now /\ get_current_user(users, tok, now).err = NoError)
            => get_current_user(users', tok, now').err = NoError

\* C7: a token issued by login at time t with TTL ttl is accepted, yielding
\* its sub, at every time before t + ttl and rejected as invalid at every time
\* after; no login, registration or list mutation invalidates an unexpired
\* token.
C7_TokenLifetime ==
    /\ []IssuedTokensFollowTheClock
    /\ [][LoginStampsExpiry /\ OnlyTheClockInvalidates]_vars

\* A token was issued, more users and a task list came after it, and the clock
\* has passed its expiry: it is rejected now.
C7_Witness ==
    \E tok \in issued :
        /\ now > tok.exp
        /\ Len(users) = 2
        /\ DOMAIN task_lists # {}
        /\ get_current_user(users, tok, now).err = AuthenticationError("Invalid token")

\* What jwt.decode and the sub check of get_current_user reject.
Unverifiable(tok) ==
    \/ ~tok.wellformed
    \/ tok.sig # Sign(tok.sub, tok.exp, secret_key)
    \/ tok.exp < now
    \/ tok.sub = None

\* A sub that is the id of no stored user: no number at all, or a number
\* that is no user's id.
NamesNoUser(tok) ==
    The(tok.sub) = <<>> \/ int(The(tok.sub)) \notin UserIds

\* The outcomes of current_user as the code has them: InvalidToken for a
\* token that is malformed, wrongly signed, expired or without sub; the
\* ValueError of int for a verifying token whose sub is empty; an
\* AuthenticationError with the message "User not found", of the same class
\* and code as InvalidToken, when the sub is a number and no user's id;
\* otherwise the stored user with id = sub.
C8_CurrentUserOutcomes ==
    \A tok \in PresentedTokens :
        LET r == get_current_user(users, tok, now) IN
        IF Unverifiable(tok)
        THEN r.err = AuthenticationError("Invalid token") /\ r.val = None
        ELSE IF The(tok.sub) = <<>>
        THEN r.err = InvalidLiteral /\ r.err.kind = "Unhandled" /\ r.val = None
        ELSE IF int(The(tok.sub)) \notin UserIds
        THEN /\ r.err = AuthenticationError("User not found")
             /\ r.err.kind = "AuthenticationError"
             /\ r.err.code = AuthenticationError("Invalid token").code
             /\ r.err # AuthenticationError("Invalid token")
             /\ r.val = None
        ELSE /\ r.err = NoError
             /\ r.val = Some(users[int(The(tok.sub))])
             /\ str(The(r.val).id) = The(tok.sub)

\* Tokens of every sort are presented: an issued one that resolves, the same
\* with its sub altered, and verifying ones whose sub names no user.
C8_Witness ==
    /\ \E tok \in PresentedTokens :
          /\ tok.wellformed
          /\ tok.sub # None
          /\ tok.sig # Sign(tok.sub, tok.exp, secret_key)
          /\ get_current_user(users, tok, now).err.message = "Invalid token"
    /\ \E tok \in PresentedTokens :
          /\ ~Unverifiable(tok)
          /\ The(tok.sub) # <<>>
          /\ int(The(tok.sub)) \notin UserIds
          /\ get_current_user(users, tok, now).err.message = "User not found"
    /\ \E tok \in PresentedTokens :
          /\ ~Unverifiable(tok)
          /\ The(tok.sub) = <<>>
          /\ get_current_user(users, tok, now).err = InvalidLiteral
    /\ \E tok \in PresentedTokens :
          /\ ~Unverifiable(tok)
          /\ get_current_user(users, tok, now).err = NoError

\* C8 as stated: current_user fails with InvalidToken for a token that is
\* malformed, wrongly signed, expired or without sub; a verifying token whose
\* sub names no user fails with UserNotFound, a not-found error; every other
\* token resolves to the stored user with id = sub.
C8_AsStated ==
    \A tok \in PresentedTokens :
        LET r == get_current_user(users, tok, now) IN
        IF Unverifiable(tok)
        THEN r.err = AuthenticationError("Invalid token") /\ r.val = None
        ELSE IF NamesNoUser(tok)
        THEN /\ r.err.kind = "EntityNotFoundError"
             /\ r.err.type = "UserNotFoundError"
             /\ r.val = None
        ELSE /\ r.err = NoError
             /\ r.val = Some(users[int(The(tok.sub))])

\* C12: register with an email in use fails with the duplicate-email error
\* also when the username is in use as well; the duplicate-username error is
\* raised exactly when the email is unused and the username is in use.
C12_EmailCheckedFirst ==
    \A d \in UserCreateDTOs, salt \in Salts :
        LET r == register_user(users, d, salt) IN
        /\ SameEmail(d.email) # {} => r.err = EmailAlreadyExistsError(d.email)
        /\ r.err.type = "UsernameAlreadyExistsError"
              <=> (SameEmail(d.email) = {} /\ SameUsername(d.username) # {})
        /\ r.err.type = "UsernameAlreadyExistsError"
              => r.err = UsernameAlreadyExistsError(d.username)

\* A request carries the email of one stored user and the username of
\* another and is told about the email; one with a free email and a taken
\* username is told about the username.
C12_Witness ==
    /\ \E d \in UserCreateDTOs :
          /\ SameEmail(d.email) # {}
          /\ SameUsername(d.username) # {}
          /\ SameEmail(d.email) # SameUsername(d.username)
          /\ register_user(users, d, "salt1").err.type = "EmailAlreadyExistsError"
    /\ \E i \in UserIds, d \in UserCreateDTOs :
          /\ d.username = users[i].username
          /\ d.email # users[i].email
          /\ register_user(<<users[i]>>, d, "salt1").err.type = "UsernameAlreadyExistsError"

\* C13 as stated: of two register requests with the same email (or the same
\* username) that both pass the existence checks before either inserts,
\* exactly one stores a user and the other fails with the duplicate error of
\* the shared field.
C13_AsStated ==
    \A first \in UserCreateDTOs, second \in UserCreateDTOs, salt \in Salts :
        LET r1 == register_user_suspended(users, users, users, first, salt)
            r2 == register_user_suspended(users, users, r1.users, second, salt)
            free(d) == SameEmail(d.email) = {} /\ SameUsername(d.username) = {}
        IN  (free(first) /\ free(second)) =>
              /\ first.email = second.email =>
                    /\ r1.err = NoError
                    /\ Len(r2.users) = Len(users) + 1
                    /\ r2.err = EmailAlreadyExistsError(second.email)
              /\ (first.email # second.email /\ first.username = second.username) =>
                    /\ r1.err = NoError
                    /\ Len(r2.users) = Len(users) + 1
                    /\ r2.err = UsernameAlreadyExistsError(second.username)

\* C14: login resolves the identifier as an email first and as a username
\* only when no user has that email; the token of a successful login carries
\* the stringified id of the user so resolved as its sub, and expires_in is
\* the TTL in minutes times 60, 1800 for the default 30 minutes.
C14_LoginResolution ==
    \A d \in LoginDTOs :
        LET r == authenticate_user(users, d, now) IN
        r.err = NoError =>
            \E i \in UserIds :
                /\ IF SameEmail(d.email) # {}
                   THEN users[i].email = d.email
                   ELSE users[i].username = d.email
                /\ The(r.val).access_token.sub = Some(str(i))
                /\ int(The(The(r.val).access_token.sub)) = i
                /\ The(r.val).access_token.exp = now + access_token_expire_minutes
                /\ The(r.val).expires_in = access_token_expire_minutes * 60
                /\ The(r.val).expires_in = 1800
                /\ The(r.val).token_type = "bearer"

\* An identifier is one user's email and another user's username: the login
\* under it goes to the user with that email; a plain username logs in too.
C14_Witness ==
    /\ \E i, j \in UserIds :
          /\ i # j
          /\ users[i].email = users[j].username
          /\ LET r == authenticate_user(users, [email |-> users[i].email,
                                                password |-> RegisteredPassword(i)], now)
             IN  r.err = NoError /\ The(r.val).access_token.sub = Some(str(i))
    /\ \E i \in UserIds :
          /\ SameEmail(users[i].username) = {}
          /\ authenticate_user(users, [email |-> users[i].username,
                                       password |-> RegisteredPassword(i)], now).err = NoError
    /\ issued # {}

(***************************************************************************)
(* Properties of the task-list service (SpecLists)                         *)
(***************************************************************************)
Forbidden == AuthorizationError("You don't have access to this task list")

\* C2: for a task list owned by A, get_task_list, update_task_list and
\* delete_task_list requested by any other user fail with Forbidden and change
\* nothing, while the same request by A succeeds; for a list id that does not
\* exist each of them fails with NotFound, whoever asks.
C2_TaskListOwnerOnly ==
    \A id \in ListIds, u \in UserIds, d \in TaskListUpdateDTOs, loaded \in BOOLEAN :
        LET got == get_task_list(task_lists, tasks, id, u, now)
            updated == update_task_list(task_lists, tasks, id, d, u, now, loaded)
            deleted == delete_task_list(task_lists, tasks, id, u)
        IN  IF id \notin DOMAIN task_lists
            THEN /\ got.err = TaskListNotFoundError(id)
                 /\ updated.err = TaskListNotFoundError(id)
                 /\ deleted.err = TaskListNotFoundError(id)
                 /\ updated.lists = task_lists
                 /\ deleted.lists = task_lists /\ deleted.tasks = tasks
            ELSE IF task_lists[id].owner_id # u
            THEN /\ got.err = Forbidden /\ got.val = None
                 /\ updated.err = Forbidden /\ updated.val = None
                 /\ deleted.err = Forbidden /\ deleted.val = None
                 /\ updated.lists = task_lists
                 /\ deleted.lists = task_lists /\ deleted.tasks = tasks
            ELSE /\ got.err = NoError /\ The(got.val).id = id
                 /\ updated.err = NoError /\ The(updated.val).id = id
                 /\ updated.lists[id].updated_at = Some(now)
                 /\ deleted.err = NoError /\ deleted.val = Some(TRUE)
                 /\ id \notin DOMAIN deleted.lists

\* A list its owner has updated holds a task; the other user is refused all
\* three requests on it, and a request for an id never handed out finds
\* nothing.
C2_Witness ==
    \E id \in DOMAIN task_lists, b \in UserIds :
        /\ task_lists[id].owner_id # b
        /\ task_lists[id].updated_at # None
        /\ \E t \in DOMAIN tasks : tasks[t].task_list_id = id
        /\ get_task_list(task_lists, tasks, id, b, now).err.kind = "AuthorizationError"
        /\ delete_task_list(task_lists, tasks, id, b).lists = task_lists
        /\ get_task_list(task_lists, tasks, id, task_lists[id].owner_id, now).err = NoError
        /\ get_task_list(task_lists, tasks, MaxLists + 1, b, now).err.kind
              = "EntityNotFoundError"

(***************************************************************************)
(* Properties of the task service (Spec)                                   *)
(***************************************************************************)
TaskForbidden == AuthorizationError("You don't have access to this task")

\* The owner of the list a stored task is in.
OwnerOf(t) == task_lists[tasks[t].task_list_id].owner_id

\* Every request on every task: get_task and update_task_status pass
\* authorization exactly for the list's owner and the current assignee.
OwnerOrAssigneeOnly ==
    \A t \in TaskIds, r \in UserIds, st \in TaskStatus :
        LET got == get_task(users, task_lists, tasks, t, r, now)
            set == update_task_status(task_lists, tasks, t, st, r, now)
        IN  IF t \notin DOMAIN tasks
            THEN /\ got.err = TaskNotFoundError(t)
                 /\ set.err = TaskNotFoundError(t)
                 /\ set.tasks = tasks
            ELSE /\ tasks[t].task_list_id \in DOMAIN task_lists
                 /\ IF OwnerOf(t) = r \/ tasks[t].assigned_to = Some(r)
                    THEN /\ got.err = NoError
                         /\ The(got.val).task.id = t
                         /\ set.err = NoError
                         /\ set.tasks[t].status = st
                    ELSE /\ got.err = TaskForbidden /\ got.val = None
                         /\ set.err = TaskForbidden /\ set.val = None
                         /\ set.tasks = tasks

\* A step that takes a task away from its assignee leaves that user, unless
\* the list's owner, refused.
FormerAssigneeRefused ==
    \A t \in DOMAIN tasks \cap DOMAIN tasks', r \in UserIds :
        (/\ tasks[t].assigned_to = Some(r)
         /\ tasks'[t].assigned_to # Some(r)
         /\ task_lists'[tasks'[t].task_list_id].owner_id # r)
        => /\ get_task(users', task_lists', tasks', t, r, now').err = TaskForbidden
           /\ update_task_status(task_lists', tasks', t, "completed", r, now').err
                 = TaskForbidden

\* C3: get_task and update_task_status on task t requested by user r pass
\* authorization if and only if r owns t's list or is t's current assignee;
\* any other requester, a replaced assignee included, gets Forbidden; a task
\* id that does not exist yields TaskNotFound.
C3_OwnerOrAssignee ==
    /\ []OwnerOrAssigneeOnly
    /\ [][FormerAssigneeRefused]_vars

\* A task that was assigned to the other user has been reassigned to the
\* list's owner: the other user is refused, the owner is served.
C3_Witness ==
    \E t \in DOMAIN tasks, r \in UserIds :
        /\ OwnerOf(t) # r
        /\ tasks[t].assigned_to = Some(OwnerOf(t))
        /\ tasks[t].updated_at # None
        /\ tasks[t].status = "pending"
        /\ get_task(users, task_lists, tasks, t, r, now).err = TaskForbidden
        /\ update_task_status(task_lists, tasks, t, "completed", r, now).err = TaskForbidden
        /\ get_task(users, task_lists, tasks, t, OwnerOf(t), now).err = NoError
        /\ get_task(users, task_lists, tasks, MaxTasks + 1, r, now).err.type
              = "TaskNotFoundError"

\* C4: update_task, delete_task and list_tasks requested by a user who does
\* not own the task's list fail with Forbidden and change nothing, also when
\* that user is the task's assignee, who can still read the task and set its
\* status; the owner's delete_task and list_tasks succeed.
C4_OwnerOnlyWrites ==
    \A t \in DOMAIN tasks, r \in UserIds :
        LET removed == delete_task(task_lists, tasks, t, r) IN
        IF OwnerOf(t) # r
        THEN /\ \A d \in TaskUpdateDTOs, env \in Envs :
                   LET changed == update_task(users, task_lists, tasks, t, d, r, now, env) IN
                   /\ changed.err = TaskForbidden
                   /\ changed.val = None
                   /\ changed.tasks = tasks
                   /\ changed.notes = <<>>
             /\ removed.err = TaskForbidden /\ removed.tasks = tasks
             /\ \A f \in TaskFilterDTOs, p \in PaginationDTOs :
                   list_tasks(task_lists, tasks, tasks[t].task_list_id, f, p, r, now).err
                       = Forbidden
             /\ tasks[t].assigned_to = Some(r) =>
                   /\ get_task(users, task_lists, tasks, t, r, now).err = NoError
                   /\ update_task_status(task_lists, tasks, t, "completed", r, now).err
                         = NoError
        ELSE /\ removed.err = NoError /\ t \notin DOMAIN removed.tasks
             /\ \A f \in TaskFilterDTOs, p \in PaginationDTOs :
                   list_tasks(task_lists, tasks, tasks[t].task_list_id, f, p, r, now).err
                       = NoError

\* A task is assigned to a user who does not own its list: that user reads
\* it and is refused the update, the delete and the listing.
C4_Witness ==
    \E t \in DOMAIN tasks, r \in UserIds :
        /\ OwnerOf(t) # r
        /\ tasks[t].assigned_to = Some(r)
        /\ get_task(users, task_lists, tasks, t, r, now).err = NoError
        /\ delete_task(task_lists, tasks, t, r).err = TaskForbidden
        /\ \E d \in TaskUpdateDTOs :
              update_task(users, task_lists, tasks, t, d, r, now, PlainDeployment).err
                  = TaskForbidden

\* C15: create_task fails with TaskListNotFound when the list does not exist,
\* otherwise with Forbidden when the requester is not its owner, whatever the
\* request's assignee; a successful create_task stores exactly one new task,
\* in that list, with status PENDING.
C15_CreateTaskAccess ==
    \A l \in ListIds, u \in UserIds, d \in TaskCreateDTOs, env \in Deployments :
        LET r == create_task(users, task_lists, tasks, next_task_id, l, d, u, now, env) IN
        /\ l \notin DOMAIN task_lists =>
              r.err = TaskListNotFoundError(l) /\ r.tasks = tasks /\ r.notes = <<>>
        /\ (l \in DOMAIN task_lists /\ task_lists[l].owner_id # u) =>
              r.err = Forbidden /\ r.tasks = tasks /\ r.notes = <<>>
        /\ r.err = NoError =>
              /\ next_task_id \notin DOMAIN tasks
              /\ DOMAIN r.tasks = DOMAIN tasks \cup {next_task_id}
              /\ \A t \in DOMAIN tasks : r.tasks[t] = tasks[t]
              /\ r.tasks[next_task_id].task_list_id = l
              /\ r.tasks[next_task_id].status = "pending"
              /\ r.tasks[next_task_id].created_at = Some(now)
              /\ The(r.val).id = next_task_id
              /\ The(r.val).status = "pending"

\* A task was created and is still PENDING; a request for a list that does
\* not exist and a request by the other user both name an assignee who does
\* not exist and are answered NotFound and Forbidden.
C15_Witness ==
    \E t \in DOMAIN tasks, u \in UserIds :
        LET l == tasks[t].task_list_id
            d == [title |-> "Milk", description |-> None, priority |-> "medium",
                  assigned_to |-> Some(MaxUsers + 1), due_date |-> None]
        IN  /\ tasks[t].status = "pending"
            /\ tasks[t].updated_at = None
            /\ task_lists[l].owner_id # u
            /\ create_task(users, task_lists, tasks, next_task_id, l, d, u, now,
                           PlainDeployment).err = Forbidden
            /\ create_task(users, task_lists, tasks, next_task_id, MaxLists + 1, d, u, now,
                           PlainDeployment).err = TaskListNotFoundError(MaxLists + 1)

\* The deployments in which an e-mail handed to the notification service is
\* sent.
Delivering(env) == env.email_enabled /\ env.notifier_returns

\* The deployments by what becomes of an e-mail: not sent because
\* notifications are disabled, failing, or sent.
MailDeployments == {env \in Envs : ~env.fk_enforced /\ env.committed}

\* The one e-mail about a task assigned to a user.
AssignmentNotice(notes, task_id, assignee) ==
    /\ Len(notes) = 1
    /\ notes[1].to_email = users[assignee].email
    /\ notes[1].user_id = assignee
    /\ notes[1].task_id = task_id

\* C16: a successful update_task sends exactly one assignment notification,
\* to the new assignee's e-mail address, when assigned_to changes to another
\* user, and none when assigned_to is not supplied or equals the current
\* assignee; a successful create_task sends exactly one when the task is
\* created with an assignee and none otherwise.
C16_AssignmentNotifications ==
    \A env \in MailDeployments, u \in UserIds :
        /\ \A t \in DOMAIN tasks, d \in TaskUpdateDTOs :
              LET r == update_task(users, task_lists, tasks, t, d, u, now, env)
                  old == tasks[t].assigned_to
                  new == d.assigned_to
              IN  r.err = NoError =>
                    IF new # None /\ new # old /\ The(new) \in UserIds
                    THEN Delivering(env) => AssignmentNotice(r.notes, t, The(new))
                    ELSE r.notes = <<>>
        /\ \A l \in ListIds, d \in TaskCreateDTOs :
              LET r == create_task(users, task_lists, tasks, next_task_id, l, d, u, now, env)
                  new == d.assigned_to
              IN  r.err = NoError =>
                    IF new # None /\ The(new) \in UserIds
                    THEN Delivering(env) => AssignmentNotice(r.notes, next_task_id, The(new))
                    ELSE r.notes = <<>>

\* A task was assigned by an update; its owner's next update sends nothing
\* when it names the same assignee or none, and one e-mail when it names
\* another user.
C16_Witness ==
    \E t \in DOMAIN tasks, a \in UserIds, b \in UserIds :
        LET u == task_lists[tasks[t].task_list_id].owner_id
            d(x) == [title |-> None, description |-> None, priority |-> None,
                     assigned_to |-> x, due_date |-> None]
            same == update_task(users, task_lists, tasks, t, d(Some(a)), u, now, PlainDeployment)
            none == update_task(users, task_lists, tasks, t, d(None), u, now, PlainDeployment)
            other == update_task(users, task_lists, tasks, t, d(Some(b)), u, now, PlainDeployment)
        IN  /\ tasks[t].assigned_to = Some(a)
            /\ tasks[t].updated_at # None
            /\ a # b
            /\ same.err = NoError /\ same.notes = <<>>
            /\ none.err = NoError /\ none.notes = <<>>
            /\ other.err = NoError /\ AssignmentNotice(other.notes, t, b)

\* C17: an update of a task assigned to a user, made by its list's owner
\* with assigned_to null, succeeds and leaves the stored task and the
\* returned task without an assignee.
C17_AsStated ==
    \A t \in DOMAIN tasks, env \in Envs :
        LET u == task_lists[tasks[t].task_list_id].owner_id
            d == [title |-> None, description |-> None, priority |-> None,
                  assigned_to |-> None, due_date |-> None]
            r == update_task(users, task_lists, tasks, t, d, u, now, env)
        IN  (tasks[t].assigned_to # None /\ The(tasks[t].assigned_to) \in UserIds) =>
              /\ r.err = NoError
              /\ r.tasks[t].assigned_to = None
              /\ The(r.val).assigned_to = None

\* C18: whatever status a task is in, update_task_status by the owner of its
\* list or by its assignee succeeds for each of the four statuses and leaves
\* the stored and the returned task in the requested status, every other
\* task as it was.
C18_AnyStatusTransition ==
    \A t \in DOMAIN tasks, u \in UserIds, st \in TaskStatus :
        LET r == update_task_status(task_lists, tasks, t, st, u, now) IN
        (u = OwnerOf(t) \/ tasks[t].assigned_to = Some(u)) =>
            /\ r.err = NoError
            /\ DOMAIN r.tasks = DOMAIN tasks
            /\ r.tasks[t].status = st
            /\ The(r.val).status = st
            /\ \A o \in DOMAIN tasks \ {t} : r.tasks[o] = tasks[o]

\* A task that was cancelled is put back to pending by its assignee, who
\* does not own the list, and marked completed by the owner.
C18_Witness ==
    \E t \in DOMAIN tasks, u \in UserIds :
        /\ tasks[t].status = "cancelled"
        /\ tasks[t].updated_at # None
        /\ tasks[t].assigned_to = Some(u)
        /\ u # OwnerOf(t)
        /\ update_task_status(task_lists, tasks, t, "pending", u, now).tasks[t].status
             = "pending"
        /\ update_task_status(task_lists, tasks, t, "completed", OwnerOf(t), now).tasks[t].status
             = "completed"

\* The requests of a list's owner that name an assignee.
OwnedLists(u) == {l \in DOMAIN task_lists : task_lists[l].owner_id = u}
OwnedTasks(u) == {t \in DOMAIN tasks : OwnerOf(t) = u}

\* C9 as stated: create_task and update_task whose assigned_to names no
\* stored user fail with UserNotFound, and whose assigned_to names an inactive
\* user fail with TaskAssignmentError.
C9_AsStated ==
    \A u \in UserIds, a \in 0..(MaxUsers + 1), env \in Envs :
        LET rejection ==
                IF a \notin UserIds THEN UserNotFoundError(a)
                ELSE IF ~users[a].is_active
                THEN TaskAssignmentError("Cannot assign task to inactive user")
                ELSE NoError
        IN  rejection # NoError =>
              /\ \A l \in OwnedLists(u), d \in TaskCreateDTOs :
                    d.assigned_to = Some(a) =>
                        create_task(users, task_lists, tasks, next_task_id, l, d, u,
                                    now, env).err = rejection
              /\ \A t \in OwnedTasks(u), d \in TaskUpdateDTOs :
                    d.assigned_to = Some(a) =>
                        update_task(users, task_lists, tasks, t, d, u, now, env).err
                            = rejection

\* C10 as stated: create_task and update_task by the list's owner with a
\* valid assignee store the task and return it, whether the notification
\* service is disabled, reports false, or raises while sending.
C10_AsStated ==
    \A u \in UserIds, a \in UserIds, env \in Envs :
        users[a].is_active =>
          /\ \A l \in OwnedLists(u), d \in TaskCreateDTOs :
                d.assigned_to = Some(a) =>
                    LET r == create_task(users, task_lists, tasks, next_task_id, l, d, u,
                                         now, env)
                    IN  /\ r.err = NoError
                        /\ next_task_id \in DOMAIN r.tasks
                        /\ r.tasks[next_task_id].assigned_to = Some(a)
          /\ \A t \in OwnedTasks(u), d \in TaskUpdateDTOs :
                d.assigned_to = Some(a) =>
                    LET r == update_task(users, task_lists, tasks, t, d, u, now, env)
                    IN  /\ r.err = NoError
                        /\ r.tasks[t].assigned_to = Some(a)

(***************************************************************************)
(* Properties of the task-list service over a long list (SpecLongList)     *)
(***************************************************************************)
\* The tasks currently in a list, and the completed ones among them.
TasksIn(l) == {t \in DOMAIN tasks : tasks[t].task_list_id = l}
CompletedIn(l) == {t \in TasksIn(l) : tasks[t].status = "completed"}

\* p is 0.0 for no tasks and otherwise the ratio 100 * K / N.
IsCompletion(p, K, N) ==
    IF N = 0 THEN p = Zero ELSE p.num * N = 100 * K * p.den

\* C11 as stated: get_task_list and list_user_task_lists report
\* completion_percentage 0.0 for a list without tasks and otherwise exactly
\* 100 * K / N, N the number of tasks currently in the list and K the
\* completed ones among them; list_user_task_lists reports task_count = N.
C11_AsStated ==
    \A l \in DOMAIN task_lists :
        LET owner == task_lists[l].owner_id
            N == Cardinality(TasksIn(l))
            K == Cardinality(CompletedIn(l))
            got == get_task_list(task_lists, tasks, l, owner, now)
            listed == list_user_task_lists(task_lists, tasks, owner,
                                           [skip |-> 0, limit |-> default_limit])
        IN  /\ got.err = NoError
            /\ IsCompletion(The(got.val).completion_percentage, K, N)
            /\ listed.err = NoError
            /\ \A k \in 1..Len(The(listed.val)) :
                  The(listed.val)[k].id = l =>
                      /\ IsCompletion(The(listed.val)[k].completion_percentage, K, N)
                      /\ The(listed.val)[k].task_count = N

\* C25: get_task_list returns every task of the list, however many there
\* are, with the completion percentage over all of them, and
\* list_user_task_lists counts every task of each list.
C25_AsStated ==
    \A l \in DOMAIN task_lists :
        LET owner == task_lists[l].owner_id
            got == get_task_list(task_lists, tasks, l, owner, now)
            returned == The(got.val).tasks
            listed == list_user_task_lists(task_lists, tasks, owner,
                                           [skip |-> 0, limit |-> default_limit])
        IN  /\ got.err = NoError
            /\ {returned[k].id : k \in 1..Len(returned)} = TasksIn(l)
            /\ Len(returned) = Cardinality(TasksIn(l))
            /\ The(got.val).completion_percentage
                 = calculate_completion_percentage(
                       task_get_by_task_list(tasks, l, 0, Cardinality(DOMAIN tasks), None, None))
            /\ \A k \in 1..Len(The(listed.val)) :
                  The(listed.val)[k].id = l =>
                      The(listed.val)[k].task_count = Cardinality(TasksIn(l))

\* C30 as stated: the completion_percentage update_task_list returns equals
\* the one get_task_list returns for the same list in the same state, and both
\* are 100 * K / N over the list's stored tasks (0.0 for a list without tasks).
\* Stated for an updated entity that carries the list's tasks, the case in
\* which update_task_list counts them all.
C30_AsStated ==
    \A l \in DOMAIN task_lists, d \in TaskListUpdateDTOs :
        LET owner == task_lists[l].owner_id
            N == Cardinality(TasksIn(l))
            K == Cardinality(CompletedIn(l))
            got == get_task_list(task_lists, tasks, l, owner, now)
            updated == update_task_list(task_lists, tasks, l, d, owner, now, TRUE)
            p == The(updated.val).completion_percentage
            q == The(got.val).completion_percentage
        IN  /\ got.err = NoError
            /\ updated.err = NoError
            /\ p.num * q.den = q.num * p.den
            /\ IsCompletion(p, K, N)
            /\ IsCompletion(q, K, N)


(***************************************************************************)
(* Properties of lists deleted next to other lists                         *)
(***************************************************************************)

\* C19: delete_task_list by the owner removes the list and every task whose
\* task_list_id is that list, so that get_task_list on the list and get_task
\* on each of those tasks answer NotFound to every user, and leaves the other
\* lists and their tasks as they were; every stored task references a stored
\* list.
C19_CascadeDelete ==
    /\ \A t \in DOMAIN tasks : tasks[t].task_list_id \in DOMAIN task_lists
    /\ \A l \in DOMAIN task_lists :
          LET r == delete_task_list(task_lists, tasks, l, task_lists[l].owner_id) IN
          /\ r.err = NoError
          /\ DOMAIN r.lists = DOMAIN task_lists \ {l}
          /\ \A o \in DOMAIN r.lists : r.lists[o] = task_lists[o]
          /\ DOMAIN r.tasks = {t \in DOMAIN tasks : tasks[t].task_list_id # l}
          /\ \A t \in DOMAIN r.tasks : r.tasks[t] = tasks[t]
          /\ \A v \in UserIds :
                /\ get_task_list(r.lists, r.tasks, l, v, now).err = TaskListNotFoundError(l)
                /\ \A t \in DOMAIN tasks :
                      tasks[t].task_list_id = l =>
                          get_task(users, r.lists, r.tasks, t, v, now).err
                              = TaskNotFoundError(t)

\* A list was deleted and the task created in it went with it, while the
\* task of the other list is still stored; deleting that list too would
\* leave no task.
C19_Witness ==
    /\ next_list_id = 3
    /\ next_task_id = 3
    /\ \E l \in DOMAIN task_lists, t \in DOMAIN tasks :
          /\ DOMAIN task_lists = {l}
          /\ DOMAIN tasks = {t}
          /\ tasks[t].task_list_id = l
          /\ delete_task_list(task_lists, tasks, l, task_lists[l].owner_id).tasks = <<>>
          /\ get_task(users, task_lists, tasks, 3 - t, task_lists[l].owner_id, now).err
               = TaskNotFoundError(3 - t)

(***************************************************************************)
(* Properties of updates next to other lists and tasks                     *)
(***************************************************************************)

\* The updates of a list: every combination of supplied and omitted fields
TaskListUpdateRequests ==
    [name : {None, Some("Chores")}, description : {None, Some("weekly")}]

\* The updates of a task: no field supplied, one field supplied, all supplied
NoFields ==
    [title |-> None, description |-> None, priority |-> None,
     assigned_to |-> None, due_date |-> None]

TaskUpdateRequests ==
    {NoFields,
     [NoFields EXCEPT !.title = Some("Bread")],
     [NoFields EXCEPT !.description = Some("2 litres")],
     [NoFields EXCEPT !.priority = Some("high")],
     [NoFields EXCEPT !.assigned_to = Some(2)],
     [NoFields EXCEPT !.due_date = Some(TickMinutes)],
     [title |-> Some("Bread"), description |-> Some("2 litres"), priority |-> Some("high"),
      assigned_to |-> Some(2), due_date |-> Some(TickMinutes)]}

\* The value of a field after an update: the supplied one, or the previous
\* one when the request supplies none.
Supplied(requested, previous) == IF requested # None THEN The(requested) ELSE previous

SuppliedOptional(requested, previous) == IF requested # None THEN requested ELSE previous

\* C20: update_task_list and update_task leave every other list and task,
\* every field the request does not supply, a list's owner_id and a task's
\* status and task_list_id as they were; a successful update gives the
\* supplied fields their new values and refreshes updated_at.
C20_UpdateFrame ==
    \A u \in UserIds :
        /\ \A l \in DOMAIN task_lists, d \in TaskListUpdateRequests, loaded \in BOOLEAN :
              LET r == update_task_list(task_lists, tasks, l, d, u, now, loaded)
                  old == task_lists[l]
              IN  /\ DOMAIN r.lists = DOMAIN task_lists
                  /\ \A o \in DOMAIN task_lists \ {l} : r.lists[o] = task_lists[o]
                  /\ r.err # NoError => r.lists = task_lists
                  /\ r.err = NoError =>
                        r.lists[l] = [id |-> old.id,
                                      name |-> Supplied(d.name, old.name),
                                      description |->
                                          SuppliedOptional(d.description, old.description),
                                      owner_id |-> old.owner_id,
                                      created_at |-> old.created_at,
                                      updated_at |-> Some(now)]
        /\ \A t \in DOMAIN tasks, d \in TaskUpdateRequests, env \in Deployments :
              LET r == update_task(users, task_lists, tasks, t, d, u, now, env)
                  old == tasks[t]
                  new == [id |-> old.id,
                          title |-> Supplied(d.title, old.title),
                          description |-> SuppliedOptional(d.description, old.description),
                          status |-> old.status,
                          priority |-> Supplied(d.priority, old.priority),
                          task_list_id |-> old.task_list_id,
                          assigned_to |-> SuppliedOptional(d.assigned_to, old.assigned_to),
                          created_at |-> old.created_at,
                          updated_at |-> Some(now),
                          due_date |-> SuppliedOptional(d.due_date, old.due_date)]
              IN  /\ DOMAIN r.tasks = DOMAIN tasks
                  /\ \A o \in DOMAIN tasks \ {t} : r.tasks[o] = tasks[o]
                  /\ r.tasks[t] \in {old, new}
                  /\ r.err = NoError => r.tasks[t] = new

\* Two lists and two tasks are stored; one list was given a description and
\* one task a due date, and the owner's next update, which supplies only a
\* name or only a title, keeps both.
C20_Witness ==
    \E l \in DOMAIN task_lists, t \in DOMAIN tasks :
        LET u == task_lists[l].owner_id
            renamed == update_task_list(task_lists, tasks, l,
                           [name |-> Some("Chores"), description |-> None], u, now, FALSE)
            retitled == update_task(users, task_lists, tasks, t,
                            [title |-> Some("Bread"), description |-> None,
                             priority |-> None, assigned_to |-> None, due_date |-> None],
                            u, now, PlainDeployment)
        IN  /\ Cardinality(DOMAIN task_lists) = 2
            /\ Cardinality(DOMAIN tasks) = 2
            /\ tasks[t].task_list_id = l
            /\ task_lists[l].description = Some("weekly")
            /\ task_lists[l].updated_at # None
            /\ tasks[t].due_date = Some(TickMinutes)
            /\ tasks[t].updated_at # None
            /\ renamed.err = NoError
            /\ renamed.lists[l].description = Some("weekly")
            /\ retitled.err = NoError
            /\ retitled.tasks[t].due_date = Some(TickMinutes)

\* C20 as stated, for an update that overlaps another one of the same row:
\* when the owner's update reads the row, another update of the row runs to
\* its end, and the first then writes, every field the writing request does
\* not supply keeps the value stored before that write.
C20_AsStated ==
    /\ \A l \in DOMAIN task_lists, first \in TaskListUpdateRequests,
          second \in AppliedTaskListUpdates :
          LET u == task_lists[l].owner_id
              r1 == update_task_list(task_lists, tasks, l, first, u, now, FALSE)
              r2 == update_task_list_suspended(task_lists, r1.lists, tasks, l, second, u,
                                               now, FALSE)
          IN  (r1.err = NoError /\ r2.err = NoError) =>
                /\ second.name = None => r2.lists[l].name = r1.lists[l].name
                /\ second.description = None =>
                      r2.lists[l].description = r1.lists[l].description
                /\ r2.lists[l].owner_id = r1.lists[l].owner_id
    /\ \A t \in DOMAIN tasks, first \in TaskUpdateRequests, second \in AppliedTaskUpdates :
          LET u == OwnerOf(t)
              r1 == update_task(users, task_lists, tasks, t, first, u, now, PlainDeployment)
              r2 == update_task_suspended(tasks, users, task_lists, r1.tasks, t, second, u,
                                          now, PlainDeployment)
          IN  (r1.err = NoError /\ r2.err = NoError) =>
                /\ second.title = None => r2.tasks[t].title = r1.tasks[t].title
                /\ second.priority = None => r2.tasks[t].priority = r1.tasks[t].priority
                /\ second.assigned_to = None =>
                      r2.tasks[t].assigned_to = r1.tasks[t].assigned_to
                /\ second.due_date = None => r2.tasks[t].due_date = r1.tasks[t].due_date
                /\ r2.tasks[t].status = r1.tasks[t].status
                /\ r2.tasks[t].task_list_id = r1.tasks[t].task_list_id

(***************************************************************************)
(* Properties of requests that overlap                                     *)
(***************************************************************************)

\* C21: delete_task and delete_task_list return true when the call removed
\* the entity and false when the delete removed nothing, and a false is
\* answered 404; of two deletes of the same entity by its owner of which
\* both pass their checks before either deletes, the first returns true and
\* the second false, and a delete whose checks come after the other's delete
\* ends in NotFound.
C21_DeleteReportsRemoval ==
    /\ \A t \in SiblingTaskIds, u \in UserIds, v \in UserIds :
          LET r1 == delete_task_suspended(task_lists, tasks, tasks, t, u)
              r2 == delete_task_suspended(task_lists, tasks, r1.tasks, t, v)
              late == delete_task(task_lists, r1.tasks, t, v)
          IN  /\ r1.err = NoError =>
                    /\ r1.val = Some(TRUE)
                    /\ t \in DOMAIN tasks /\ t \notin DOMAIN r1.tasks
                    /\ delete_task_endpoint(r1) = 200
                    /\ late.err = TaskNotFoundError(t)
                    /\ delete_task_endpoint(late) = 404
              /\ (r1.err = NoError /\ r2.err = NoError) =>
                    /\ r2.val = Some(FALSE)
                    /\ r2.tasks = r1.tasks
                    /\ delete_task_endpoint(r2) = 404
    /\ \A l \in SiblingListIds, u \in UserIds, v \in UserIds :
          LET r1 == delete_task_list_suspended(task_lists, task_lists, tasks, l, u)
              r2 == delete_task_list_suspended(task_lists, r1.lists, r1.tasks, l, v)
              late == delete_task_list(r1.lists, r1.tasks, l, v)
          IN  /\ r1.err = NoError =>
                    /\ r1.val = Some(TRUE)
                    /\ l \in DOMAIN task_lists /\ l \notin DOMAIN r1.lists
                    /\ delete_task_list_endpoint(r1) = 200
                    /\ late.err = TaskListNotFoundError(l)
                    /\ delete_task_list_endpoint(late) = 404
              /\ (r1.err = NoError /\ r2.err = NoError) =>
                    /\ r2.val = Some(FALSE)
                    /\ r2.lists = r1.lists /\ r2.tasks = r1.tasks
                    /\ delete_task_list_endpoint(r2) = 404

\* One task was deleted by overlapping requests; the owner's two overlapping
\* deletes of the task that is left, and of its list, return true and false.
C21_Witness ==
    \E t \in DOMAIN tasks :
        LET l == tasks[t].task_list_id
            u == task_lists[l].owner_id
            r1 == delete_task_suspended(task_lists, tasks, tasks, t, u)
            r2 == delete_task_suspended(task_lists, tasks, r1.tasks, t, u)
            d1 == delete_task_list_suspended(task_lists, task_lists, tasks, l, u)
            d2 == delete_task_list_suspended(task_lists, d1.lists, d1.tasks, l, u)
        IN  /\ next_task_id = 3
            /\ DOMAIN tasks = {t}
            /\ l \in DOMAIN task_lists
            /\ 3 - t \in DOMAIN task_lists
            /\ r1.val = Some(TRUE) /\ r2.val = Some(FALSE)
            /\ d1.val = Some(TRUE) /\ d2.val = Some(FALSE)

(***************************************************************************)
(* Properties of due dates                                                 *)
(***************************************************************************)

\* C22: the is_overdue a task is returned with is false when the task has no
\* due date, false when it is COMPLETED, false until the clock has passed the
\* due date, and true for a task past its due date that is PENDING,
\* IN_PROGRESS or CANCELLED.
C22_Overdue ==
    /\ \A t \in DOMAIN tasks :
          LET got == get_task(users, task_lists, tasks, t, OwnerOf(t), now)
              flag == The(got.val).task.is_overdue
              task == tasks[t]
          IN  /\ got.err = NoError
              /\ task.due_date = None => ~flag
              /\ task.status = "completed" => ~flag
              /\ (task.due_date # None /\ now <= The(task.due_date)) => ~flag
              /\ (task.due_date # None /\ now > The(task.due_date)
                    /\ task.status \in {"pending", "in_progress", "cancelled"}) => flag
    /\ \A st \in TaskStatus, due \in 0..MaxTime :
          LET task == [status |-> st, due_date |-> Some(due)] IN
          /\ ~is_overdue([task EXCEPT !.due_date = None], now)
          /\ is_overdue(task, now) <=> (now > due /\ st # "completed")

\* A cancelled task is past its due date and is returned as overdue.
C22_Witness ==
    \E t \in DOMAIN tasks :
        /\ tasks[t].status = "cancelled"
        /\ tasks[t].due_date = Some(TickMinutes)
        /\ now > TickMinutes
        /\ The(get_task(users, task_lists, tasks, t, OwnerOf(t), now).val).task.is_overdue

\* The filters and pages of a listing
ListFilters ==
    [status : {None, Some("completed")}, priority : {None, Some("medium")},
     assigned_to : {None, Some(0), Some(1)}, overdue_only : BOOLEAN]

ListPages == [skip : {0, 1}, limit : {1, default_limit}]

\* C23: list_tasks by the list's owner returns at most limit tasks, each of
\* the list and each matching every filter the request supplies: status,
\* priority, assigned_to and overdue_only.
C23_AsStated ==
    \A l \in DOMAIN task_lists, f \in ListFilters, p \in ListPages :
        LET r == list_tasks(task_lists, tasks, l, f, p, task_lists[l].owner_id, now)
            returned == The(r.val)
        IN  /\ r.err = NoError
            /\ Len(returned) <= p.limit
            /\ \A k \in 1..Len(returned) :
                  /\ returned[k].task_list_id = l
                  /\ f.status # None => returned[k].status = The(f.status)
                  /\ f.priority # None => returned[k].priority = The(f.priority)
                  /\ f.assigned_to # None => returned[k].assigned_to = f.assigned_to
                  /\ f.overdue_only => returned[k].is_overdue

(***************************************************************************)
(* Properties of the responses to errors                                   *)
(***************************************************************************)

\* The HTTP status of each class of domain error
StatusOfClass ==
    [c \in {"TaskListNotFoundError", "TaskNotFoundError", "UserNotFoundError",
            "EntityNotFoundError"} |-> 404]
    @@ [c \in {"AuthenticationError"} |-> 401]
    @@ [c \in {"AuthorizationError"} |-> 403]
    @@ [c \in {"ValidationError"} |-> 422]
    @@ [c \in {"BusinessRuleViolationError", "TaskAssignmentError",
               "TaskStatusTransitionError"} |-> 409]
    @@ [c \in {"DuplicateEntityError", "EmailAlreadyExistsError",
               "UsernameAlreadyExistsError", "InvalidOperationError",
               "TaskManagerException"} |-> 400]

\* A domain error of every class
DomainErrors ==
    {TaskListNotFoundError(1), TaskNotFoundError(1), UserNotFoundError(1),
     EntityNotFoundError("EntityNotFoundError", "Entity", 1),
     AuthenticationError("Invalid credentials"), AuthenticationError("Invalid token"),
     AuthorizationError("You don't have access to this task"),
     ValidationError("Validation failed"),
     BusinessRuleViolationError("BusinessRuleViolationError", "Rule violated"),
     TaskAssignmentError("Cannot assign task to inactive user"),
     TaskStatusTransitionError("completed", "pending"),
     DuplicateEntityError("User", "email", "a@x.com"),
     EmailAlreadyExistsError("a@x.com"), UsernameAlreadyExistsError("alice"),
     InvalidOperationError("Invalid operation"),
     TaskManagerException("Generic error", "")}

\* The errors the requests of the current state end in
RequestErrors ==
    {register_user(users, d, "salt1").err : d \in UserCreateDTOs}
    \cup {authenticate_user(users, d, now).err : d \in LoginDTOs}
    \cup {get_current_user(users, tk, now).err : tk \in PresentedTokens}
    \cup {get_task_list(task_lists, tasks, l, u, now).err : l \in ListIds, u \in UserIds}
    \cup {delete_task_list(task_lists, tasks, l, u).err : l \in ListIds, u \in UserIds}
    \cup {create_task(users, task_lists, tasks, next_task_id, l, d, u, now, PlainDeployment).err :
             l \in ListIds, d \in TaskCreateDTOs, u \in UserIds}
    \cup {update_task(users, task_lists, tasks, t, d, u, now, PlainDeployment).err :
             t \in TaskIds, d \in TaskUpdateDTOs, u \in UserIds}
    \cup {get_task(users, task_lists, tasks, t, u, now).err : t \in TaskIds, u \in UserIds}
    \cup {delete_task(task_lists, tasks, t, u).err : t \in TaskIds, u \in UserIds}

\* C24: a domain error is answered with the status of its class: not found
\* 404, authentication 401, authorization 403, validation 422, business rule
\* (TaskAssignmentError included) 409, duplicate entity and every other
\* domain error 400, and with the error's message and error_code.
C24_ErrorResponses ==
    \A exc \in DomainErrors \cup {e \in RequestErrors : e # NoError /\ e.kind # "Unhandled"} :
        /\ exc.type \in DOMAIN StatusOfClass
        /\ task_manager_exception_handler(exc)
             = [status_code |-> StatusOfClass[exc.type],
                message |-> exc.message,
                error_code |-> exc.code]

\* Requests of the current state end in errors answered 400, 401, 403, 404
\* and 409, the last for a task assigned to a deactivated user.
C24_Witness ==
    /\ {task_manager_exception_handler(exc).status_code :
            exc \in {e \in RequestErrors : e # NoError /\ e.kind # "Unhandled"}}
         = {400, 401, 403, 404, 409}
    /\ \E l \in DOMAIN task_lists :
          LET r == create_task(users, task_lists, tasks, next_task_id, l, DelegatedTask,
                               task_lists[l].owner_id, now, PlainDeployment)
          IN  /\ r.err = TaskAssignmentError("Cannot assign task to inactive user")
              /\ task_manager_exception_handler(r.err).status_code = 409

\* An outcome that is a domain error
DomainError(err) == err # NoError /\ err.kind # "Unhandled"

\* C26: a request that ends in a domain error (not found, forbidden, user
\* not found, task assignment, duplicate email or username) leaves the users,
\* the task lists and the tasks as they were and sends no notification.
C26_FailedRequestsChangeNothing ==
    /\ \A d \in UserCreateDTOs, salt \in Salts :
          LET r == register_user(users, d, salt) IN
          DomainError(r.err) => r.users = users
    /\ \A l \in ListIds, u \in UserIds :
          /\ \A d \in TaskListUpdateDTOs, loaded \in BOOLEAN :
                LET r == update_task_list(task_lists, tasks, l, d, u, now, loaded) IN
                DomainError(r.err) => r.lists = task_lists
          /\ LET r == delete_task_list(task_lists, tasks, l, u) IN
             DomainError(r.err) => (r.lists = task_lists /\ r.tasks = tasks)
          /\ \A d \in TaskCreateDTOs, env \in Deployments :
                LET r == create_task(users, task_lists, tasks, next_task_id, l, d, u, now, env)
                IN  DomainError(r.err) => (r.tasks = tasks /\ r.notes = <<>>)
    /\ \A t \in TaskIds, u \in UserIds :
          /\ \A d \in TaskUpdateDTOs, env \in Deployments :
                LET r == update_task(users, task_lists, tasks, t, d, u, now, env) IN
                DomainError(r.err) => (r.tasks = tasks /\ r.notes = <<>>)
          /\ \A st \in TaskStatus :
                LET r == update_task_status(task_lists, tasks, t, st, u, now) IN
                DomainError(r.err) => r.tasks = tasks
          /\ LET r == delete_task(task_lists, tasks, t, u) IN
             DomainError(r.err) => r.tasks = tasks

\* With a task stored and the other account deactivated, the owner's
\* create_task and update_task naming that account end in
\* TaskAssignmentError, those naming no account in UserNotFoundError,
\* the other user's update in Forbidden and a second registration of the
\* owner's email in the duplicate error.
C26_Witness ==
    \E t \in DOMAIN tasks, a \in UserIds :
        LET l == tasks[t].task_list_id
            u == OwnerOf(t)
            d(x) == [title |-> None, description |-> None, priority |-> None,
                     assigned_to |-> x, due_date |-> None]
        IN  /\ a # u
            /\ ~users[a].is_active
            /\ create_task(users, task_lists, tasks, next_task_id, l,
                           [PlainTask EXCEPT !.assigned_to = Some(a)], u, now,
                           PlainDeployment).err.type = "TaskAssignmentError"
            /\ update_task(users, task_lists, tasks, t, d(Some(a)), u, now,
                           PlainDeployment).err.type = "TaskAssignmentError"
            /\ update_task(users, task_lists, tasks, t, d(Some(MaxUsers + 1)), u, now,
                           PlainDeployment).err = UserNotFoundError(MaxUsers + 1)
            /\ update_task(users, task_lists, tasks, t, d(None), a, now,
                           PlainDeployment).err.type = "AuthorizationError"
            /\ \E acc \in Accounts :
                  register_user(users, acc, "salt1").err = EmailAlreadyExistsError(users[u].email)

\* C27: a create_task for a list that checks the list before the
\* delete_task_list of that list and inserts after it leaves no task naming
\* the deleted list; every stored task names a stored list; and the owner
\* lookup of get_task, update_task, update_task_status and delete_task never
\* meets a missing list, whether the request runs alone or reads the task
\* before a delete_task_list of its list and the list after it.
C27_AsStated ==
    /\ \A t \in DOMAIN tasks :
          /\ tasks[t].task_list_id \in DOMAIN task_lists
          /\ \A u \in UserIds :
                /\ get_task(users, task_lists, tasks, t, u, now).err # missing_list
                /\ update_task(users, task_lists, tasks, t, NoFields, u, now,
                               PlainDeployment).err # missing_list
                /\ update_task_status(task_lists, tasks, t, "completed", u, now).err
                     # missing_list
                /\ delete_task(task_lists, tasks, t, u).err # missing_list
    /\ \A l \in DOMAIN task_lists, env \in EnforcingDeployments \cup {PlainDeployment} :
          LET owner == task_lists[l].owner_id
              d == delete_task_list(task_lists, tasks, l, owner)
              r == create_task_suspended(task_lists, users, d.lists, d.tasks, next_task_id,
                                         l, PlainTask, owner, now, env)
          IN  \A t \in DOMAIN r.tasks : r.tasks[t].task_list_id \in DOMAIN d.lists
    /\ \A t \in DOMAIN tasks, u \in UserIds :
          LET l == tasks[t].task_list_id
              d == delete_task_list(task_lists, tasks, l, task_lists[l].owner_id)
          IN  /\ get_task(users, d.lists, tasks, t, u, now).err # missing_list
              /\ delete_task_suspended(d.lists, tasks, d.tasks, t, u).err # missing_list

\* C28: when the owner's update_task reads a task, an update_task_status of
\* the task runs, and then update_task writes, and both succeed, the stored
\* task carries the new status and the updated fields.
C28_AsStated ==
    \A t \in DOMAIN tasks, st \in TaskStatus, d \in AppliedTaskUpdates :
        LET owner == OwnerOf(t)
            moved == update_task_status(task_lists, tasks, t, st, owner, now)
            r == update_task_suspended(tasks, users, task_lists, moved.tasks, t, d, owner,
                                       now, PlainDeployment)
        IN  (moved.err = NoError /\ r.err = NoError) =>
              /\ r.tasks[t].status = st
              /\ r.tasks[t].due_date = d.due_date

(***************************************************************************)
(* Properties of deactivated accounts.                                     *)
(***************************************************************************)

\* C29: an issued, unexpired token of a user whose is_active is now false still
\* resolves to that user, and the requests made as that user (creating a task
\* list, reading and deleting an own list, putting a task into it) succeed;
\* the same user is refused at login with the right password (AccountInactive)
\* and as the assignee of a task (TaskAssignmentError).
C29_InactiveUserStillResolved ==
    \A tok \in issued :
        (~Unverifiable(tok) /\ int(The(tok.sub)) \in UserIds) =>
            LET i == int(The(tok.sub))
                cur == get_current_user(users, tok, now)
            IN  ~users[i].is_active =>
                  /\ cur.err = NoError
                  /\ cur.val = Some(users[i])
                  /\ ~The(cur.val).is_active
                  /\ LET uid == The(cur.val).id IN
                     /\ create_task_list(task_lists, next_list_id,
                                         [name |-> "Groceries", description |-> None],
                                         uid, now).err = NoError
                     /\ \A l \in DOMAIN task_lists :
                           task_lists[l].owner_id = uid =>
                             /\ get_task_list(task_lists, tasks, l, uid, now).err = NoError
                             /\ delete_task_list(task_lists, tasks, l, uid).err = NoError
                             /\ \A env \in Deployments :
                                   create_task(users, task_lists, tasks, next_task_id, l,
                                               PlainTask, uid, now, env).err = NoError
                  /\ authenticate_user(users, [email |-> users[i].email,
                                               password |-> RegisteredPassword(i)], now)
                        = [err |-> AccountInactive, val |-> None]
                  /\ verify_assignee(users, Some(i))
                        = TaskAssignmentError("Cannot assign task to inactive user")

\* A user logged in, was deactivated, and presents the token before it expires
\* while owning a task list.
C29_Witness ==
    \E tok \in issued :
        /\ ~Unverifiable(tok)
        /\ int(The(tok.sub)) \in UserIds
        /\ ~users[int(The(tok.sub))].is_active
        /\ get_current_user(users, tok, now).val = Some(users[int(The(tok.sub))])
        /\ \E l \in DOMAIN task_lists : task_lists[l].owner_id = int(The(tok.sub))

====
